---------------------------- MODULE Spec2Model ----------------------------
(***************************************************************************)
(* Model of the cresville settlement simulation: World (tile store and     *)
(* generator, src/js/world.js) and GameState / Economy (src/js/economy.js).*)
(*                                                                         *)
(* Numbers.  The JavaScript numbers of the simulation are multiples of     *)
(* 0.1 (0.5 wood, 0.1 forest health, 0.2 uranium, 10 - 10 * rate with the  *)
(* rate a whole percentage), so every real quantity is kept in TENTHS:     *)
(* money = 5000 stands for 500.  incomeTaxRate is kept as the whole        *)
(* percentage the slider delivers (parseInt(value) / 100).  Altitude,      *)
(* population, level and the stone/iron/uranium quantities are integers    *)
(* in the code and are kept as such.                                       *)
(*                                                                         *)
(* Objects.  A structure is an object shared by the Economy's Map and the  *)
(* tile's back-reference, so structures live in `heap` under an identity   *)
(* and both places hold the identity.                                      *)
(***************************************************************************)
EXTENDS Integers, Sequences, FiniteSets, TLC

VARIABLES
    seed,        \* World.seed
    tiles,       \* World.tiles: Map "x,y" -> Tile, as a function on the stored keys
    structures,  \* Economy.structures: Map "x,y" -> structure, in insertion order
    heap,        \* the structure objects, by identity
    gameState,   \* GameState
    lastOp,      \* the last operation called, its arguments and its return value
    commands,    \* the number of commands (build, demolish, tax rate) given so far
    ticks,       \* the number of calls of Game.tick so far
    panels       \* the World, Economy and GameState the UI panels were constructed with

vars == <<seed, tiles, structures, heap, gameState, lastOp, commands, ticks, panels>>

----------------------------------------------------------------------------
(* Bounds of the model *)

\* Game.tick is taken at most MaxTicks times.
MaxTicks == 1

\* At most MaxCommands commands are given.
MaxCommands == 2

----------------------------------------------------------------------------
(* Helpers *)

Tenths(n) == n * 10

Null == 0

Abs(n) == IF n < 0 THEN -n ELSE n
Min(a, b) == IF a < b THEN a ELSE b

\* Math.ceil(a / b) for b > 0
CeilDiv(a, b) == -((-a) \div b)

\* Math.round of a value given in tenths: floor(v + 0.5)
RoundTenths(v) == (v + 5) \div 10

----------------------------------------------------------------------------
(* The part of the infinite grid the operations of the model touch: the    *)
(* build sites and every coordinate a scan from a site reaches.            *)

LumberRange == 8
MineRange == 4

Sites == {<<0, 0>>, <<1, 0>>, <<5, 0>>}

Coords ==
    {<<x, y>> : x \in (0 - LumberRange)..(5 + LumberRange),
                y \in (0 - LumberRange)..LumberRange}

Seeds == {1, 2, 5}

----------------------------------------------------------------------------
(* SeededRandom and PerlinNoise.  Both are fixed functions of the seed     *)
(* (bit mixing and floating point interpolation); the model tabulates      *)
(* them for the seeds of Seeds.  next() is kept in hundredths.             *)

\* new SeededRandom(seed + x * p ^ y * q): one stream per tile and purpose
\* (stream 1: generateResources, stream 2: generateForest), `n` values drawn.
SeededRandom(s, stream, c) == [seed |-> s, stream |-> stream, at |-> c, n |-> 0]

\* SeededRandom.next(): the value drawn, in hundredths (0..99)
RngValue(rng) ==
    (rng.seed * 37 + rng.stream * 71 + rng.at[1] * 11 + rng.at[2] * 29
        + rng.n * 53 + 1000) % 100

RngAdvance(rng) == [rng EXCEPT !.n = @ + 1]

\* SeededRandom.nextInt(min, max) = floor(next() * (max - min + 1)) + min
NextInt(rng, min, max) == ((RngValue(rng) * (max - min + 1)) \div 100) + min

\* perlin.noise(x * 0.1, y * 0.1) * 30 - 10, in tenths
AltitudeNoise(s, c) ==
    CASE s = 1 -> IF c = <<6, 0>> THEN 42 ELSE 3
      [] s = 2 -> IF c = <<5, 1>> THEN 25 ELSE 6
      [] s = 5 -> IF c = <<0, 0>> THEN -14 ELSE 21
      [] s = 7 -> 40 + 30 * c[1] + 10 * c[2]
      [] OTHER -> 120

\* perlin.noise(x * 0.05, y * 0.05), in tenths
ForestNoise(s, c) ==
    CASE s = 2 -> IF c[1] = 0 - LumberRange /\ c[2] \in -2..3 THEN 5 ELSE 1
      [] s = 5 -> IF c[1] \in 5..6 /\ c[2] \in 0..1 THEN 4 ELSE 3
      [] OTHER -> 0

----------------------------------------------------------------------------
(* World: tiles and their generation *)

\* new Tile(x, y)
NewTile(c) ==
    [x |-> c[1], y |-> c[2], altitude |-> 0,
     resources |-> [stone |-> 0, iron |-> 0, uranium |-> 0],
     structure |-> Null, isForest |-> FALSE, forestHealth |-> 0]

\* generateResources testing the looser band first, so that a tile of the
\* tighter band falls through to it
generateResources_LooseBandFirst(s, tile) ==
    LET c    == <<tile.x, tile.y>>
        rng0 == SeededRandom(s, 1, c)
        stone == NextInt(rng0, 50, 150)
        rng1 == RngAdvance(rng0)
        a    == Abs(tile.altitude)
        iron == IF a < 10 THEN NextInt(rng1, 5, 30)
                ELSE IF a < 5 THEN NextInt(rng1, 20, 80)
                ELSE tile.resources.iron
        rng2 == IF a < 10 THEN RngAdvance(rng1) ELSE rng1
        uranium == IF a < 8 THEN NextInt(rng2, 0, 5)
                   ELSE IF a < 3 THEN NextInt(rng2, 1, 10)
                   ELSE tile.resources.uranium
    IN  [tile EXCEPT !.resources =
            [stone |-> stone, iron |-> iron, uranium |-> uranium]]

\* generateResources with inclusive bounds (<=), a boundary altitude taking
\* the band of the smaller bound
generateResources_Inclusive(s, tile) ==
    LET c    == <<tile.x, tile.y>>
        rng0 == SeededRandom(s, 1, c)
        stone == NextInt(rng0, 50, 150)
        rng1 == RngAdvance(rng0)
        a    == Abs(tile.altitude)
        iron == IF a <= 5 THEN NextInt(rng1, 20, 80)
                ELSE IF a <= 10 THEN NextInt(rng1, 5, 30)
                ELSE tile.resources.iron
        rng2 == IF a <= 10 THEN RngAdvance(rng1) ELSE rng1
        uranium == IF a <= 3 THEN NextInt(rng2, 1, 10)
                   ELSE IF a <= 8 THEN NextInt(rng2, 0, 5)
                   ELSE tile.resources.uranium
    IN  [tile EXCEPT !.resources =
            [stone |-> stone, iron |-> iron, uranium |-> uranium]]

\* World.generateResources(tile)
generateResources(s, tile) ==
    LET c    == <<tile.x, tile.y>>
        rng0 == SeededRandom(s, 1, c)
        stone == NextInt(rng0, 50, 150)
        rng1 == RngAdvance(rng0)
        a    == Abs(tile.altitude)
        iron == IF a < 5 THEN NextInt(rng1, 20, 80)
                ELSE IF a < 10 THEN NextInt(rng1, 5, 30)
                ELSE tile.resources.iron
        rng2 == IF a < 10 THEN RngAdvance(rng1) ELSE rng1
        uranium == IF a < 3 THEN NextInt(rng2, 1, 10)
                   ELSE IF a < 8 THEN NextInt(rng2, 0, 5)
                   ELSE tile.resources.uranium
    IN  [tile EXCEPT !.resources =
            [stone |-> stone, iron |-> iron, uranium |-> uranium]]

\* World.generateForest(tile)
generateForest(s, tile) ==
    LET c    == <<tile.x, tile.y>>
        rng0 == SeededRandom(s, 2, c)
    IN  IF tile.altitude > -3
           /\ ForestNoise(s, c) > 3
           /\ RngValue(rng0) > 60
        THEN [tile EXCEPT !.isForest = TRUE,
                          !.forestHealth = Tenths(NextInt(RngAdvance(rng0), 70, 100))]
        ELSE tile

\* World.generateTile(x, y): the tile it stores under the key
generateTile(s, c) ==
    LET t0 == [NewTile(c) EXCEPT !.altitude = RoundTenths(AltitudeNoise(s, c))]
    IN  generateForest(s, generateResources(s, t0))

\* getTile drawing from a generator shared by all tiles, so that a tile
\* depends on how many were generated before it
getTile_SharedGenerator(s, store, c) ==
    IF c \in DOMAIN store THEN store
    ELSE [k \in DOMAIN store \cup {c} |->
            IF k = c THEN generateTile(s + Cardinality(DOMAIN store), c) ELSE store[k]]

\* World.getTile(x, y): the store after the call (the tile returned is store[c])
getTile(s, store, c) ==
    IF c \in DOMAIN store THEN store
    ELSE [k \in DOMAIN store \cup {c} |->
            IF k = c THEN generateTile(s, c) ELSE store[k]]

\* getTilesOf generating every tile it is asked for, stored or not
getTilesOf_Regenerates(s, store, cs) ==
    [k \in DOMAIN store \cup cs |->
        IF k \in cs THEN generateTile(s, k) ELSE store[k]]

\* getTile on every coordinate of `cs`; generation depends on the coordinate
\* alone, so the order of the calls does not matter.
getTilesOf(s, store, cs) ==
    IF cs \subseteq DOMAIN store THEN store
    ELSE [k \in DOMAIN store \cup cs |->
            IF k \in DOMAIN store THEN store[k] ELSE generateTile(s, k)]

\* World.getTiles(centerX, centerY, gridSize): the tiles returned, in the order
\* they are pushed (dy outer, dx inner), and the store after the call
getTiles(s, store, c, gridSize) ==
    LET halfGrid == gridSize \div 2
        side     == 2 * halfGrid + 1
        store1   == getTilesOf(s, store, {<<c[1] + dx, c[2] + dy>> :
                        dx \in (0 - halfGrid)..halfGrid, dy \in (0 - halfGrid)..halfGrid})
    IN  [tiles |-> [i \in 1..(side * side) |->
                      store1[<<c[1] - halfGrid + ((i - 1) % side),
                               c[2] - halfGrid + ((i - 1) \div side)>>]],
         store |-> store1]

\* getMaxAltitudeDiff with the limits of mine and lumber swapped
getMaxAltitudeDiff_Swapped(structureType) ==
    CASE structureType = "house"  -> 1
      [] structureType = "farm"   -> 1
      [] structureType = "mine"   -> 2
      [] structureType = "lumber" -> 3
      [] OTHER -> 1

\* World.getMaxAltitudeDiff(structureType)
getMaxAltitudeDiff(structureType) ==
    CASE structureType = "house"  -> 1
      [] structureType = "farm"   -> 1
      [] structureType = "mine"   -> 3
      [] structureType = "lumber" -> 2
      [] OTHER -> 1

Neighbors(c) ==
    << <<c[1] - 1, c[2]>>, <<c[1] + 1, c[2]>>, <<c[1], c[2] - 1>>, <<c[1], c[2] + 1>> >>

\* World.canBuildStructure(tile, structureType): the result and the store
\* after the call (the neighbours are looked up only when the first two
\* checks pass)
canBuildStructure(s, store, c, structureType) ==
    LET tile == store[c]
    IN  IF tile.altitude < 0
        THEN [canBuild |-> FALSE, reason |-> <<"Cannot build on water">>, tiles |-> store]
        ELSE IF tile.isForest
        THEN [canBuild |-> FALSE, reason |-> <<"Cannot build on forest">>, tiles |-> store]
        ELSE
          LET nb     == Neighbors(c)
              store1 == getTilesOf(s, store, {nb[i] : i \in 1..4})
              steep  == \E i \in 1..4 :
                          Abs(store1[nb[i]].altitude - tile.altitude)
                              > getMaxAltitudeDiff(structureType)
          IN  IF steep
              THEN [canBuild |-> FALSE,
                    reason |-> <<"Terrain too steep for", structureType>>,
                    tiles |-> store1]
              ELSE [canBuild |-> TRUE, reason |-> <<>>, tiles |-> store1]

----------------------------------------------------------------------------
(* GameState *)

\* new GameState()
NewGameState ==
    [money |-> Tenths(500), food |-> Tenths(50), wood |-> Tenths(100),
     population |-> 0, employed |-> 0, incomeTaxRate |-> 10, time |-> 0,
     messages |-> <<>>]

\* addMessage dropping the newest entry of a full log (pop for shift)
addMessage_DropsNewest(gs, text, type) ==
    LET pushed == Append(gs.messages, [text |-> text, type |-> type, time |-> gs.time])
    IN  [gs EXCEPT !.messages = IF Len(pushed) > 10 THEN SubSeq(pushed, 1, 10) ELSE pushed]

\* GameState.addMessage(text, type)
addMessage(gs, text, type) ==
    LET pushed == Append(gs.messages, [text |-> text, type |-> type, time |-> gs.time])
    IN  [gs EXCEPT !.messages = IF Len(pushed) > 10 THEN Tail(pushed) ELSE pushed]

----------------------------------------------------------------------------
(* Economy.  The state an Economy method works on is passed as a record   *)
(* st = [tiles, structures, heap, gameState].                              *)

\* Map.get(key): the identity stored under the key, or Null
MapGet(map, key) ==
    IF \E i \in 1..Len(map) : map[i].key = key
    THEN map[CHOOSE i \in 1..Len(map) : map[i].key = key].ref
    ELSE Null

\* Map.set(key, ref): a present key keeps its place, a new one goes last
MapSet(map, key, ref) ==
    IF \E i \in 1..Len(map) : map[i].key = key
    THEN [i \in 1..Len(map) |->
            IF map[i].key = key THEN [key |-> key, ref |-> ref] ELSE map[i]]
    ELSE Append(map, [key |-> key, ref |-> ref])

\* Map.delete(key)
MapDelete(map, key) == SelectSeq(map, LAMBDA e : e.key # key)

\* a fresh object identity
NewRef(h) == CHOOSE i \in 1..(Cardinality(DOMAIN h) + 1) :
                i \notin DOMAIN h /\ \A j \in 1..(i - 1) : j \in DOMAIN h

\* objects no Map entry and no tile refers to are gone
Collect(st) ==
    LET live == {st.structures[i].ref : i \in 1..Len(st.structures)}
                  \cup {st.tiles[c].structure : c \in DOMAIN st.tiles}
    IN  [st EXCEPT !.heap = [r \in DOMAIN st.heap \cap live |-> st.heap[r]]]

\* getStructureCost with the farm's food cost left out
getStructureCost_FarmWithoutFood(structureType) ==
    CASE structureType = "house"  ->
            [money |-> Tenths(100), wood |-> Tenths(50), food |-> 0]
      [] structureType = "farm"   ->
            [money |-> Tenths(80), wood |-> Tenths(30), food |-> 0]
      [] structureType = "mine"   ->
            [money |-> Tenths(120), wood |-> Tenths(60), food |-> 0]
      [] structureType = "lumber" ->
            [money |-> Tenths(50), wood |-> Tenths(20), food |-> 0]
      [] OTHER -> [money |-> 0, wood |-> 0, food |-> 0]

\* Economy.getStructureCost(structureType)
getStructureCost(structureType) ==
    CASE structureType = "house"  ->
            [money |-> Tenths(100), wood |-> Tenths(50), food |-> 0]
      [] structureType = "farm"   ->
            [money |-> Tenths(80), wood |-> Tenths(30), food |-> Tenths(10)]
      [] structureType = "mine"   ->
            [money |-> Tenths(120), wood |-> Tenths(60), food |-> 0]
      [] structureType = "lumber" ->
            [money |-> Tenths(50), wood |-> Tenths(20), food |-> 0]
      [] OTHER -> [money |-> 0, wood |-> 0, food |-> 0]

\* Economy.getDefaultStructureData(structureType)
getDefaultStructureData(structureType) ==
    CASE structureType = "house"  -> [residents |-> 0, capacity |-> 5]
      [] structureType = "farm"   -> [production |-> 0, foodPerTick |-> 5]
      [] structureType = "mine"   -> [resourceLevel |-> "stone", extractedStone |-> 0]
      [] structureType = "lumber" -> [woodPerTick |-> 5]
      [] OTHER -> [none |-> 0]

BuildFailure(st, reason) ==
    [success |-> FALSE, reason |-> reason, structure |-> Null, st |-> st]

\* Economy.buildStructure, lines 73-91: deduct the costs, build and register
BuildSuccess(s, st1, c, structureType) ==
    LET costs     == getStructureCost(structureType)
        gs        == st1.gameState
        ref       == NewRef(st1.heap)
        structure == [type |-> structureType, x |-> c[1], y |-> c[2],
                      level |-> 1,
                      data |-> getDefaultStructureData(structureType)]
        paid      == [gs EXCEPT !.money = @ - costs.money,
                                !.wood  = @ - costs.wood,
                                !.food  = @ - costs.food]
    IN  [success |-> TRUE, reason |-> <<>>, structure |-> ref,
         st |-> [tiles      |-> [st1.tiles EXCEPT ![c].structure = ref],
                 structures |-> MapSet(st1.structures, c, ref),
                 heap       |-> [r \in DOMAIN st1.heap \cup {ref} |->
                                  IF r = ref THEN structure ELSE st1.heap[r]],
                 gameState  |-> addMessage(paid,
                                  <<"Built", structureType, ToString(c[1]),
                                    ToString(c[2])>>,
                                  "success")]]

\* buildStructure with the occupancy check moved before the terrain check
buildStructure_OccupiedFirst(s, st, c, structureType) ==
    LET costs == getStructureCost(structureType)
        gs    == st.gameState
    IN  IF gs.money < costs.money THEN BuildFailure(st, <<"Not enough money">>)
        ELSE IF gs.wood < costs.wood THEN BuildFailure(st, <<"Not enough wood">>)
        ELSE IF gs.food < costs.food THEN BuildFailure(st, <<"Not enough food">>)
        ELSE IF st.tiles[c].structure # Null
        THEN BuildFailure(st, <<"Tile already occupied">>)
        ELSE
          LET buildCheck == canBuildStructure(s, st.tiles, c, structureType)
              st1        == [st EXCEPT !.tiles = buildCheck.tiles]
          IN  IF ~buildCheck.canBuild THEN BuildFailure(st1, buildCheck.reason)
              ELSE BuildSuccess(s, st1, c, structureType)

\* buildStructure with the costs deducted before the terrain and occupancy checks
buildStructure_DeductsEarly(s, st, c, structureType) ==
    LET costs == getStructureCost(structureType)
        gs    == st.gameState
    IN  IF gs.money < costs.money THEN BuildFailure(st, <<"Not enough money">>)
        ELSE IF gs.wood < costs.wood THEN BuildFailure(st, <<"Not enough wood">>)
        ELSE IF gs.food < costs.food THEN BuildFailure(st, <<"Not enough food">>)
        ELSE
          LET buildCheck == canBuildStructure(s, st.tiles, c, structureType)
              st1        == [st EXCEPT !.tiles = buildCheck.tiles]
              early      == [st1 EXCEPT !.gameState.money = @ - costs.money]
          IN  IF ~buildCheck.canBuild THEN BuildFailure(early, buildCheck.reason)
              ELSE IF st1.tiles[c].structure # Null
              THEN BuildFailure(early, <<"Tile already occupied">>)
              ELSE BuildSuccess(s, st1, c, structureType)

\* buildStructure without the money check
buildStructure_NoMoneyCheck(s, st, c, structureType) ==
    LET costs == getStructureCost(structureType)
        gs    == st.gameState
    IN  IF gs.wood < costs.wood THEN BuildFailure(st, <<"Not enough wood">>)
        ELSE IF gs.food < costs.food THEN BuildFailure(st, <<"Not enough food">>)
        ELSE
          LET buildCheck == canBuildStructure(s, st.tiles, c, structureType)
              st1        == [st EXCEPT !.tiles = buildCheck.tiles]
          IN  IF ~buildCheck.canBuild THEN BuildFailure(st1, buildCheck.reason)
              ELSE IF st1.tiles[c].structure # Null
              THEN BuildFailure(st1, <<"Tile already occupied">>)
              ELSE BuildSuccess(s, st1, c, structureType)

\* Economy.buildStructure(tile, structureType), tile being the stored tile at c
buildStructure(s, st, c, structureType) ==
    LET costs == getStructureCost(structureType)
        gs    == st.gameState
    IN  IF gs.money < costs.money THEN BuildFailure(st, <<"Not enough money">>)
        ELSE IF gs.wood < costs.wood THEN BuildFailure(st, <<"Not enough wood">>)
        ELSE IF gs.food < costs.food THEN BuildFailure(st, <<"Not enough food">>)
        ELSE
          LET buildCheck == canBuildStructure(s, st.tiles, c, structureType)
              st1        == [st EXCEPT !.tiles = buildCheck.tiles]
          IN  IF ~buildCheck.canBuild THEN BuildFailure(st1, buildCheck.reason)
              ELSE IF st1.tiles[c].structure # Null
              THEN BuildFailure(st1, <<"Tile already occupied">>)
              ELSE BuildSuccess(s, st1, c, structureType)

\* destroyStructure without `tile.structure = null`
destroyStructure_KeepsTileReference(s, st, c) ==
    IF MapGet(st.structures, c) # Null
    THEN [st EXCEPT !.structures = MapDelete(st.structures, c),
                    !.tiles = getTile(s, st.tiles, c)]
    ELSE st

\* destroyStructure paying half of the money cost back
destroyStructure_Refunds(s, st, c) ==
    IF MapGet(st.structures, c) # Null
    THEN LET store == getTile(s, st.tiles, c)
             type  == st.heap[MapGet(st.structures, c)].type
         IN  [st EXCEPT !.structures = MapDelete(st.structures, c),
                        !.tiles = [store EXCEPT ![c].structure = Null],
                        !.gameState.money = @ + getStructureCost(type).money \div 2]
    ELSE st

\* Economy.destroyStructure(x, y)
destroyStructure(s, st, c) ==
    IF MapGet(st.structures, c) # Null
    THEN LET store == getTile(s, st.tiles, c)
         IN  [st EXCEPT !.structures = MapDelete(st.structures, c),
                        !.tiles = [store EXCEPT ![c].structure = Null]]
    ELSE st

----------------------------------------------------------------------------
(* Economy.tick *)

\* The farm loop over an array of the structures that is spliced while it is
\* looped over: the entry after a deleted one is skipped
RECURSIVE FarmLoop_SkipsAfterDelete(_, _, _, _)
FarmLoop_SkipsAfterDelete(s, st, i, farmIncome) ==
    IF i > Len(st.structures) THEN [st |-> st, farmIncome |-> farmIncome]
    ELSE
      LET ref       == st.structures[i].ref
          structure == st.heap[ref]
          netIncome == Tenths(10) - st.gameState.incomeTaxRate
      IN  IF structure.type # "farm"
          THEN FarmLoop_SkipsAfterDelete(s, st, i + 1, farmIncome)
          ELSE IF netIncome <= 0
          THEN LET st1 == destroyStructure(s, st, <<structure.x, structure.y>>)
                   st2 == [st1 EXCEPT !.gameState =
                              addMessage(@, <<"Farm went bankrupt due to high taxes">>,
                                         "error")]
               IN  FarmLoop_SkipsAfterDelete(s, st2, i + 1, farmIncome)
          ELSE FarmLoop_SkipsAfterDelete(s,
                        [st EXCEPT !.heap[ref].data.foodPerTick =
                            10 + 5 * (structure.level - 1)],
                        i + 1, farmIncome + netIncome)

\* FarmLoop adding the income before tax
RECURSIVE FarmLoop_GrossIncome(_, _, _, _)
FarmLoop_GrossIncome(s, st, i, farmIncome) ==
    IF i > Len(st.structures) THEN [st |-> st, farmIncome |-> farmIncome]
    ELSE
      LET ref       == st.structures[i].ref
          structure == st.heap[ref]
          \* tax = income * incomeTaxRate = 10 * (rate / 100), that is `rate` tenths
          income    == Tenths(10)
          tax       == st.gameState.incomeTaxRate
          netIncome == income - tax
      IN  IF structure.type # "farm" THEN FarmLoop_GrossIncome(s, st, i + 1, farmIncome)
          ELSE IF netIncome <= 0
          THEN LET st1 == destroyStructure(s, st, <<structure.x, structure.y>>)
                   st2 == [st1 EXCEPT !.gameState =
                              addMessage(@, <<"Farm went bankrupt due to high taxes">>,
                                         "error")]
               IN  FarmLoop_GrossIncome(s, st2, i, farmIncome)
          ELSE FarmLoop_GrossIncome(s,
                        [st EXCEPT !.heap[ref].data.foodPerTick =
                            10 + 5 * (structure.level - 1)],
                        i + 1, farmIncome + income)

\* FarmLoop adding the food a farm produces to the stock
RECURSIVE FarmLoop_ProducesFood(_, _, _, _)
FarmLoop_ProducesFood(s, st, i, farmIncome) ==
    IF i > Len(st.structures) THEN [st |-> st, farmIncome |-> farmIncome]
    ELSE
      LET ref       == st.structures[i].ref
          structure == st.heap[ref]
          \* tax = income * incomeTaxRate = 10 * (rate / 100), that is `rate` tenths
          income    == Tenths(10)
          tax       == st.gameState.incomeTaxRate
          netIncome == income - tax
      IN  IF structure.type # "farm" THEN FarmLoop_ProducesFood(s, st, i + 1, farmIncome)
          ELSE IF netIncome <= 0
          THEN LET st1 == destroyStructure(s, st, <<structure.x, structure.y>>)
                   st2 == [st1 EXCEPT !.gameState =
                              addMessage(@, <<"Farm went bankrupt due to high taxes">>,
                                         "error")]
               IN  FarmLoop_ProducesFood(s, st2, i, farmIncome)
          ELSE FarmLoop_ProducesFood(s,
                        [st EXCEPT !.heap[ref].data.foodPerTick =
                            10 + 5 * (structure.level - 1),
                                  !.gameState.food = @ + 10 + 5 * (structure.level - 1)],
                        i + 1, farmIncome + netIncome)

\* The farm loop, `for (let structure of this.structures.values())`: a Map
\* iterator is live, so after the entry at position i is deleted the next
\* entry is the one that moved to position i.
RECURSIVE FarmLoop(_, _, _, _)
FarmLoop(s, st, i, farmIncome) ==
    IF i > Len(st.structures) THEN [st |-> st, farmIncome |-> farmIncome]
    ELSE
      LET ref       == st.structures[i].ref
          structure == st.heap[ref]
          \* tax = income * incomeTaxRate = 10 * (rate / 100), that is `rate` tenths
          income    == Tenths(10)
          tax       == st.gameState.incomeTaxRate
          netIncome == income - tax
      IN  IF structure.type # "farm" THEN FarmLoop(s, st, i + 1, farmIncome)
          ELSE IF netIncome <= 0
          THEN LET st1 == destroyStructure(s, st, <<structure.x, structure.y>>)
                   st2 == [st1 EXCEPT !.gameState =
                              addMessage(@, <<"Farm went bankrupt due to high taxes">>,
                                         "error")]
               IN  FarmLoop(s, st2, i, farmIncome)
          ELSE FarmLoop(s,
                        [st EXCEPT !.heap[ref].data.foodPerTick =
                            10 + 5 * (structure.level - 1)],
                        i + 1, farmIncome + netIncome)

\* ConsumeFood without `this.gameState.food = 0`
ConsumeFood_NoClamp(gs) ==
    LET food == gs.food - gs.population * 5
    IN  IF food < 0
        THEN LET leavers == CeilDiv(-food, Tenths(5))
             IN  [gs EXCEPT !.population = @ - Min(leavers, gs.population),
                            !.food = food]
        ELSE [gs EXCEPT !.food = food]

\* Consume food; if not enough food, population leaves
ConsumeFood(gs) ==
    LET food == gs.food - gs.population * 5
    IN  IF food < 0
        THEN LET leavers == CeilDiv(-food, Tenths(5))
                 gs1     == [gs EXCEPT !.population = @ - Min(leavers, gs.population),
                                       !.food = 0]
             IN  IF leavers > 0
                 THEN addMessage(gs1, <<ToString(leavers), "people left due to hunger">>,
                                 "warning")
                 ELSE gs1
        ELSE [gs EXCEPT !.food = food]

RECURSIVE SumCapacity(_, _, _)
SumCapacity(st, i, total) ==
    IF i > Len(st.structures) THEN total
    ELSE LET structure == st.heap[st.structures[i].ref]
         IN  SumCapacity(st, i + 1,
                 IF structure.type = "house" THEN total + structure.data.capacity
                 ELSE total)

\* Grow adding two people whatever room is left
Grow_AlwaysTwo(st) ==
    LET totalHouseCapacity == SumCapacity(st, 1, 0)
        gs == st.gameState
    IN  IF gs.population < totalHouseCapacity /\ gs.food > Tenths(50)
        THEN [st EXCEPT !.gameState.population = @ + 2]
        ELSE st

\* Grow with the food test food >= 50 in place of food > 50
Grow_AtFifty(st) ==
    LET totalHouseCapacity == SumCapacity(st, 1, 0)
        gs == st.gameState
    IN  IF gs.population < totalHouseCapacity /\ gs.food >= Tenths(50)
        THEN [st EXCEPT !.gameState.population =
                 @ + Min(2, totalHouseCapacity - gs.population)]
        ELSE st

\* Population can grow if there are empty houses and food
Grow(st) ==
    LET totalHouseCapacity == SumCapacity(st, 1, 0)
        gs == st.gameState
    IN  IF gs.population < totalHouseCapacity /\ gs.food > Tenths(50)
        THEN [st EXCEPT !.gameState.population =
                 @ + Min(2, totalHouseCapacity - gs.population)]
        ELSE st

\* the square of half-width r centred on c
Square(c, r) == {<<c[1] + dx, c[2] + dy>> : dx \in (0 - r)..r, dy \in (0 - r)..r}

\* DamageLine without the `break`: the line is scanned to its end
RECURSIVE DamageLine_NoBreak(_, _, _, _)
DamageLine_NoBreak(store, c, dx, dy) ==
    IF dy > LumberRange THEN store
    ELSE
      LET k    == <<c[1] + dx, c[2] + dy>>
          tile == store[k]
      IN  IF tile.isForest /\ tile.forestHealth > 0
          THEN LET health == tile.forestHealth - 1
               IN  IF health <= 0
                   THEN DamageLine_NoBreak([store EXCEPT ![k].forestHealth = health,
                                                         ![k].isForest = FALSE],
                                           c, dx, dy + 1)
                   ELSE DamageLine_NoBreak([store EXCEPT ![k].forestHealth = health],
                                           c, dx, dy + 1)
          ELSE DamageLine_NoBreak(store, c, dx, dy + 1)

\* DamageLine leaving isForest set on a tile whose health reached 0
RECURSIVE DamageLine_KeepsFlag(_, _, _, _)
DamageLine_KeepsFlag(store, c, dx, dy) ==
    IF dy > LumberRange THEN store
    ELSE
      LET k    == <<c[1] + dx, c[2] + dy>>
          tile == store[k]
      IN  IF tile.isForest /\ tile.forestHealth > 0
          THEN LET health == tile.forestHealth - 1
               IN  IF health <= 0
                   THEN [store EXCEPT ![k].forestHealth = health]
                   ELSE DamageLine_KeepsFlag([store EXCEPT ![k].forestHealth = health],
                                             c, dx, dy + 1)
          ELSE DamageLine_KeepsFlag(store, c, dx, dy + 1)

\* The inner loop of the damage scan, `for (let dy = -8; dy <= 8; dy++)`, from dy on
RECURSIVE DamageLine(_, _, _, _)
DamageLine(store, c, dx, dy) ==
    IF dy > LumberRange THEN store
    ELSE
      LET k    == <<c[1] + dx, c[2] + dy>>
          tile == store[k]
      IN  IF tile.isForest /\ tile.forestHealth > 0
          THEN LET health == tile.forestHealth - 1
               IN  IF health <= 0
                   THEN [store EXCEPT ![k].forestHealth = health,
                                      ![k].isForest = FALSE]
                   ELSE DamageLine([store EXCEPT ![k].forestHealth = health],
                                   c, dx, dy + 1)
          ELSE DamageLine(store, c, dx, dy + 1)

\* The outer loop of the damage scan, `for (let dx = -8; dx <= 8; dx++)`, from dx on
RECURSIVE DamageForests(_, _, _)
DamageForests(store, c, dx) ==
    IF dx > LumberRange THEN store
    ELSE DamageForests(DamageLine(store, c, dx, 0 - LumberRange), c, dx + 1)

\* tickLumber paying for every forest tile in range
tickLumber_PerForestTile(s, st, lumber) ==
    LET c           == <<lumber.x, lumber.y>>
        store       == getTilesOf(s, st.tiles, Square(c, LumberRange))
        forestCount == Cardinality({k \in Square(c, LumberRange) :
                           store[k].isForest /\ store[k].forestHealth > 0})
        st1         == [st EXCEPT !.tiles = store]
    IN  IF forestCount > 0
        THEN [st1 EXCEPT !.gameState.wood = @ + 5 * lumber.level * forestCount,
                         !.tiles = DamageForests(store, c, 0 - LumberRange)]
        ELSE st1

\* One lumber structure's turn in the tick
tickLumber(s, st, lumber) ==
    LET c           == <<lumber.x, lumber.y>>
        store       == getTilesOf(s, st.tiles, Square(c, LumberRange))
        forestCount == Cardinality({k \in Square(c, LumberRange) :
                           store[k].isForest /\ store[k].forestHealth > 0})
        st1         == [st EXCEPT !.tiles = store]
    IN  IF forestCount > 0
        THEN [st1 EXCEPT !.gameState.wood = @ + 5 * lumber.level,
                         !.tiles = DamageForests(store, c, 0 - LumberRange)]
        ELSE st1

\* `for (let lumber of lumberStructures)`: the array is taken before the loop
RECURSIVE LumberLoop(_, _, _)
LumberLoop(s, st, lumberStructures) ==
    IF lumberStructures = <<>> THEN st
    ELSE LumberLoop(s, tickLumber(s, st, st.heap[Head(lumberStructures)]),
                    Tail(lumberStructures))

RECURSIVE SumOver(_, _)
SumOver(f, S) ==
    IF S = {} THEN 0
    ELSE LET k == CHOOSE k \in S : TRUE IN f[k] + SumOver(f, S \ {k})

\* tickMine upgrading only above the threshold (`>` for `>=`)
tickMine_StrictThreshold(s, st, ref) ==
    LET mine   == st.heap[ref]
        square == Square(<<mine.x, mine.y>>, MineRange)
        store  == getTilesOf(s, st.tiles, square)
        stone   == SumOver([k \in square |-> store[k].resources.stone], square)
        iron    == SumOver([k \in square |-> store[k].resources.iron], square)
        uranium == SumOver([k \in square |-> store[k].resources.uranium], square)
        st1    == [st EXCEPT !.tiles = store]
        level  == mine.data.resourceLevel
    IN  IF level = "stone" /\ stone > 0
        THEN LET mined     == Min(Tenths(1), Tenths(stone))
                 extracted == mine.data.extractedStone + mined
                 st2       == [st1 EXCEPT !.gameState.wood = @ + mined \div 2]
             IN  IF extracted > Tenths(100)
                 THEN [st2 EXCEPT !.heap[ref].data.resourceLevel = "iron",
                                  !.heap[ref].data.extractedStone = 0,
                                  !.gameState = addMessage(@,
                                      <<"Mine upgraded to iron extraction">>, "success")]
                 ELSE [st2 EXCEPT !.heap[ref].data.extractedStone = extracted]
        ELSE IF level = "iron" /\ iron > 0
        THEN LET mined     == Min(5, Tenths(iron))
                 extracted == mine.data.extractedStone + mined
                 st2       == [st1 EXCEPT !.gameState.wood = @ + mined]
             IN  IF extracted > Tenths(100)
                 THEN [st2 EXCEPT !.heap[ref].data.resourceLevel = "uranium",
                                  !.heap[ref].data.extractedStone = 0,
                                  !.gameState = addMessage(@,
                                      <<"Mine upgraded to uranium extraction">>,
                                      "success")]
                 ELSE [st2 EXCEPT !.heap[ref].data.extractedStone = extracted]
        ELSE IF level = "uranium" /\ uranium > 0
        THEN LET mined == Min(2, Tenths(uranium))
             IN  [st1 EXCEPT !.gameState.wood = @ + mined * 2]
        ELSE st1

\* tickMine taking the stone it mines out of the mine's own tile
tickMine_Depletes(s, st, ref) ==
    LET mine   == st.heap[ref]
        square == Square(<<mine.x, mine.y>>, MineRange)
        store  == getTilesOf(s, st.tiles, square)
        stone   == SumOver([k \in square |-> store[k].resources.stone], square)
        iron    == SumOver([k \in square |-> store[k].resources.iron], square)
        uranium == SumOver([k \in square |-> store[k].resources.uranium], square)
        st1    == [st EXCEPT !.tiles =
                      [store EXCEPT ![<<mine.x, mine.y>>].resources.stone = @ - 1]]
        level  == mine.data.resourceLevel
    IN  IF level = "stone" /\ stone > 0
        THEN LET mined     == Min(Tenths(1), Tenths(stone))
                 extracted == mine.data.extractedStone + mined
                 st2       == [st1 EXCEPT !.gameState.wood = @ + mined \div 2]
             IN  IF extracted >= Tenths(100)
                 THEN [st2 EXCEPT !.heap[ref].data.resourceLevel = "iron",
                                  !.heap[ref].data.extractedStone = 0,
                                  !.gameState = addMessage(@,
                                      <<"Mine upgraded to iron extraction">>, "success")]
                 ELSE [st2 EXCEPT !.heap[ref].data.extractedStone = extracted]
        ELSE IF level = "iron" /\ iron > 0
        THEN LET mined     == Min(5, Tenths(iron))
                 extracted == mine.data.extractedStone + mined
                 st2       == [st1 EXCEPT !.gameState.wood = @ + mined]
             IN  IF extracted >= Tenths(100)
                 THEN [st2 EXCEPT !.heap[ref].data.resourceLevel = "uranium",
                                  !.heap[ref].data.extractedStone = 0,
                                  !.gameState = addMessage(@,
                                      <<"Mine upgraded to uranium extraction">>,
                                      "success")]
                 ELSE [st2 EXCEPT !.heap[ref].data.extractedStone = extracted]
        ELSE IF level = "uranium" /\ uranium > 0
        THEN LET mined == Min(2, Tenths(uranium))
             IN  [st1 EXCEPT !.gameState.wood = @ + mined * 2]
        ELSE st1

\* Economy.tickMine(mine), mine being the object `ref`
tickMine(s, st, ref) ==
    LET mine   == st.heap[ref]
        square == Square(<<mine.x, mine.y>>, MineRange)
        store  == getTilesOf(s, st.tiles, square)
        stone   == SumOver([k \in square |-> store[k].resources.stone], square)
        iron    == SumOver([k \in square |-> store[k].resources.iron], square)
        uranium == SumOver([k \in square |-> store[k].resources.uranium], square)
        st1    == [st EXCEPT !.tiles = store]
        level  == mine.data.resourceLevel
    IN  IF level = "stone" /\ stone > 0
        THEN LET mined     == Min(Tenths(1), Tenths(stone))
                 extracted == mine.data.extractedStone + mined
                 st2       == [st1 EXCEPT !.gameState.wood = @ + mined \div 2]
             IN  IF extracted >= Tenths(100)
                 THEN [st2 EXCEPT !.heap[ref].data.resourceLevel = "iron",
                                  !.heap[ref].data.extractedStone = 0,
                                  !.gameState = addMessage(@,
                                      <<"Mine upgraded to iron extraction">>, "success")]
                 ELSE [st2 EXCEPT !.heap[ref].data.extractedStone = extracted]
        ELSE IF level = "iron" /\ iron > 0
        THEN LET mined     == Min(5, Tenths(iron))
                 extracted == mine.data.extractedStone + mined
                 st2       == [st1 EXCEPT !.gameState.wood = @ + mined]
             IN  IF extracted >= Tenths(100)
                 THEN [st2 EXCEPT !.heap[ref].data.resourceLevel = "uranium",
                                  !.heap[ref].data.extractedStone = 0,
                                  !.gameState = addMessage(@,
                                      <<"Mine upgraded to uranium extraction">>,
                                      "success")]
                 ELSE [st2 EXCEPT !.heap[ref].data.extractedStone = extracted]
        ELSE IF level = "uranium" /\ uranium > 0
        THEN LET mined == Min(2, Tenths(uranium))
             IN  [st1 EXCEPT !.gameState.wood = @ + mined * 2]
        ELSE st1

\* The mine loop, `for (let structure of this.structures.values())`
RECURSIVE MineLoop(_, _, _)
MineLoop(s, st, i) ==
    IF i > Len(st.structures) THEN st
    ELSE LET ref == st.structures[i].ref
         IN  MineLoop(s, IF st.heap[ref].type = "mine" THEN tickMine(s, st, ref) ELSE st,
                      i + 1)

\* Economy.tick()
tick(s, st) ==
    LET farms  == FarmLoop(s, st, 1, 0)
        st1    == [farms.st EXCEPT !.gameState.money = @ + farms.farmIncome]
        st2    == [st1 EXCEPT !.gameState = ConsumeFood(@)]
        st3    == Grow(st2)
        lumberStructures ==
            SelectSeq([i \in 1..Len(st3.structures) |-> st3.structures[i].ref],
                      LAMBDA r : st3.heap[r].type = "lumber")
        st4    == LumberLoop(s, st3, lumberStructures)
    IN  MineLoop(s, st4, 1)

----------------------------------------------------------------------------
(* Save data and Game.loadGame.  In save data (JSON) a tile's structure is *)
(* <<>> for null and <<structure>> otherwise.                              *)

\* Tile.toJSON / Tile.fromJSON keep every field
TileJSON(tile, structure) ==
    [x |-> tile.x, y |-> tile.y, altitude |-> tile.altitude,
     resources |-> tile.resources, structure |-> structure,
     isForest |-> tile.isForest, forestHealth |-> tile.forestHealth]

\* the coordinates of S in row-major order
RECURSIVE Ordered(_)
Ordered(S) ==
    IF S = {} THEN <<>>
    ELSE LET first == CHOOSE c \in S :
                        \A d \in S : c[2] < d[2] \/ (c[2] = d[2] /\ c[1] <= d[1])
         IN  <<first>> \o Ordered(S \ {first})

IndexOf(seq, e) == CHOOSE i \in 1..Len(seq) : seq[i] = e

\* Economy.fromJSON: structures.set(`${x},${y}`, structure) for each listed
\* structure, the i-th being the object i
RECURSIVE FromList(_, _, _)
FromList(listed, i, map) ==
    IF i > Len(listed) THEN map
    ELSE FromList(listed, i + 1, MapSet(map, <<listed[i].x, listed[i].y>>, i))

\* Game.loadGame(saveData): World.fromJSON, GameState.fromJSON, Economy.fromJSON
\* and addMessage('Game loaded').  JSON.parse gives every structure of
\* economy.structures and every tile's structure an object of its own.
loadGame(saveData) ==
    LET listed   == saveData.economy.structures
        n        == Len(listed)
        built    == Ordered({c \in DOMAIN saveData.world.tiles :
                               saveData.world.tiles[c].structure # <<>>})
        objects  == [r \in 1..(n + Len(built)) |->
                       IF r <= n THEN listed[r]
                       ELSE saveData.world.tiles[built[r - n]].structure[1]]
        store    == [c \in DOMAIN saveData.world.tiles |->
                       LET data == saveData.world.tiles[c]
                       IN  [x |-> data.x, y |-> data.y, altitude |-> data.altitude,
                            resources |-> data.resources,
                            structure |-> IF data.structure = <<>> THEN Null
                                          ELSE n + IndexOf(built, c),
                            isForest |-> data.isForest,
                            forestHealth |-> data.forestHealth]]
        state    == [money |-> saveData.gameState.money,
                     food |-> saveData.gameState.food,
                     wood |-> saveData.gameState.wood,
                     population |-> saveData.gameState.population,
                     employed |-> saveData.gameState.employed,
                     incomeTaxRate |-> saveData.gameState.incomeTaxRate,
                     time |-> saveData.gameState.time,
                     messages |-> <<>>]
    IN  [tiles      |-> store,
         structures |-> FromList(listed, 1, <<>>),
         heap       |-> objects,
         gameState  |-> addMessage(state, <<"Game loaded">>, "success")]

----------------------------------------------------------------------------
(* The saves the model starts from (localStorage's gameSave_<seed>): games *)
(* saved later in play, given by their economic state, their structures    *)
(* and the forest health lumbering has left.                               *)

SavedState(money, food, wood, population, incomeTaxRate, time) ==
    [money |-> Tenths(money), food |-> food, wood |-> Tenths(wood),
     population |-> population, employed |-> 0,
     incomeTaxRate |-> incomeTaxRate, time |-> time]

Structure(type, c, level, data) ==
    [type |-> type, x |-> c[1], y |-> c[2], level |-> level, data |-> data]

\* the tiles a game with these structures has generated
SavedRegion(listed) ==
    Square(<<0, 0>>, 4) \cup
    UNION {LET st == listed[i]
           IN  IF st.type = "lumber" THEN Square(<<st.x, st.y>>, LumberRange)
               ELSE IF st.type = "mine" THEN Square(<<st.x, st.y>>, MineRange)
               ELSE {<<st.x, st.y>>} : i \in 1..Len(listed)}

\* World.toJSON / Economy.toJSON / GameState.toJSON of such a game; `wear` maps
\* coordinates to the forest health left there
SaveData(s, state, listed, wear) ==
    [seed      |-> s,
     gameState |-> state,
     world     |-> [seed |-> s,
                    tiles |-> [c \in SavedRegion(listed) |->
                       LET tile == generateTile(s, c)
                           worn == IF c \in DOMAIN wear /\ tile.isForest
                                   THEN [tile EXCEPT !.forestHealth = wear[c],
                                                     !.isForest = wear[c] > 0]
                                   ELSE tile
                           here == SelectSeq(listed, LAMBDA st : <<st.x, st.y>> = c)
                       IN  TileJSON(worn, here)]],
     economy   |-> [structures |-> listed]]

Mine(c, resourceLevel, extractedStone) ==
    Structure("mine", c, 1,
              [resourceLevel |-> resourceLevel, extractedStone |-> extractedStone])

Saves ==
    { \* short of money and food, on the terrain of seed 5, with a mine close to
      \* its upgrade on the steep site
      SaveData(5, SavedState(90, 50, 100, 0, 10, 140),
               <<Mine(<<1, 0>>, "stone", 990)>>, <<>>),
      \* short of wood, and more people than food
      SaveData(1, SavedState(500, 50, 25, 20, 10, 60), <<>>, <<>>),
      \* mines of every tier
      SaveData(2, SavedState(200, 500, 70, 0, 10, 400),
               <<Mine(<<0, 0>>, "stone", 990), Mine(<<1, 0>>, "iron", 995),
                 Mine(<<5, 0>>, "uranium", 0)>>, <<>>),
      \* mines where no tile in range holds iron or uranium
      SaveData(4, SavedState(200, 500, 70, 0, 10, 400),
               <<Mine(<<0, 0>>, "iron", 40), Mine(<<1, 0>>, "uranium", 0)>>, <<>>),
      \* lumber structures with and without forest in range, one forest tile
      \* nearly cut down
      SaveData(2, SavedState(300, 500, 30, 0, 10, 700),
               <<Structure("lumber", <<0, 0>>, 2, [woodPerTick |-> 5]),
                 Structure("lumber", <<1, 0>>, 1, [woodPerTick |-> 5])>>,
               [c \in {<<0 - LumberRange, -2>>} |-> 1]),
      \* farms, houses and people
      SaveData(2, SavedState(300, 600, 20, 3, 10, 30),
               <<Structure("farm", <<0, 0>>, 1, [production |-> 0, foodPerTick |-> 10]),
                 Structure("farm", <<1, 0>>, 2, [production |-> 0, foodPerTick |-> 10]),
                 Structure("lumber", <<5, 0>>, 1, [woodPerTick |-> 5])>>,
               <<>>),
      \* one lumber structure, the second forest tile of the column in its
      \* range nearly cut down
      SaveData(2, SavedState(300, 500, 30, 0, 10, 650),
               <<Structure("lumber", <<0, 0>>, 1, [woodPerTick |-> 5])>>,
               [c \in {<<0 - LumberRange, -1>>} |-> 1]),
      \* a farm of level 3 under a tax of 50%, a house with room for one more
      \* and food above 50
      SaveData(1, SavedState(100, 580, 50, 4, 50, 90),
               <<Structure("farm", <<0, 0>>, 3, [production |-> 0, foodPerTick |-> 5]),
                 Structure("house", <<1, 0>>, 1, [residents |-> 0, capacity |-> 5])>>,
               <<>>) }

----------------------------------------------------------------------------
(* The state machine *)

StructureTypes == {"house", "farm", "mine", "lumber"}

\* the values the tax slider is moved to, in percent
TaxRates == {10, 100}

State == [tiles |-> tiles, structures |-> structures, heap |-> heap,
          gameState |-> gameState]

Install(st) ==
    /\ tiles' = st.tiles
    /\ structures' = st.structures
    /\ heap' = st.heap
    /\ gameState' = st.gameState

Op(op, c, type, success, reason) ==
    [op |-> op, at |-> c, type |-> type, success |-> success, reason |-> reason]

\* GameUI: gridSize, and the camera position the model keeps
GridSize == 9
Camera == <<0, 0>>

\* The panels hold the instances Game.init created at lines 18-24.  Without a
\* save these stay the Game's own (shared, and then `st` is not used).
SharedPanels ==
    [shared |-> TRUE,
     st |-> [tiles |-> <<>>, structures |-> <<>>, heap |-> <<>>,
             gameState |-> NewGameState]]

\* With a save, loadGame puts new instances into the Game's fields after the
\* panels were constructed: the panels keep the World(seed), the GameState()
\* and the empty Economy of lines 18-24, and the initial render() goes
\* through ui.world, which is that World.
StalePanels(s) ==
    [shared |-> FALSE,
     st |-> [tiles |-> getTiles(s, <<>>, Camera, GridSize).store,
             structures |-> <<>>, heap |-> <<>>,
             gameState |-> NewGameState]]

\* Game.init() without a save: new World(seed), new GameState(), new Economy(...)
\* and the initial render(), which calls world.getTiles(cameraX, cameraY, gridSize)
InitNew ==
    /\ seed \in Seeds
    /\ tiles = getTiles(seed, <<>>, Camera, GridSize).store
    /\ structures = <<>>
    /\ heap = <<>>
    /\ gameState = NewGameState
    /\ lastOp = Op("init", <<0, 0>>, "", TRUE, <<>>)
    /\ commands = 0
    /\ ticks = 0
    /\ panels = SharedPanels

\* Game.init() with a save: the world, economy and state loadGame installs
InitLoaded ==
    \E saveData \in Saves :
        LET st == loadGame(saveData)
        IN  /\ seed = saveData.world.seed
            /\ tiles = st.tiles
            /\ structures = st.structures
            /\ heap = st.heap
            /\ gameState = st.gameState
            /\ lastOp = Op("load", <<0, 0>>, "", TRUE, <<>>)
            /\ commands = 0
            /\ ticks = 0
            /\ panels = StalePanels(saveData.world.seed)
    /\ ticks = 0

Init == InitNew \/ InitLoaded

\* economy.buildStructure(world.getTile(x, y), structureType)
BuildStructure(c, structureType) ==
    LET selected == [State EXCEPT !.tiles = getTile(seed, tiles, c)]
        result   == buildStructure(seed, selected, c, structureType)
    IN  /\ commands < MaxCommands
        /\ Install(result.st)
        /\ lastOp' = Op("build", c, structureType, result.success, result.reason)
        /\ commands' = commands + 1
        /\ UNCHANGED <<seed, ticks, panels>>

\* economy.destroyStructure(x, y)
DestroyStructure(c) ==
    /\ commands < MaxCommands
    /\ Install(Collect(destroyStructure(seed, State, c)))
    /\ lastOp' = Op("destroy", c, "", TRUE, <<>>)
    /\ commands' = commands + 1
    /\ UNCHANGED <<seed, ticks, panels>>

\* Game.tick(): time++, economy.tick()
Tick ==
    /\ ticks < MaxTicks
    /\ Install(Collect(tick(seed, [State EXCEPT !.gameState.time = @ + 1])))
    /\ lastOp' = Op("tick", <<0, 0>>, "", TRUE, <<>>)
    /\ ticks' = ticks + 1
    /\ UNCHANGED <<seed, commands, panels>>

\* gameState.incomeTaxRate = parseInt(value) / 100, the assignment of the
\* StatsPanel slider, on the Game's GameState
SetTaxRate(percent) ==
    /\ commands < MaxCommands
    /\ gameState' = [gameState EXCEPT !.incomeTaxRate = percent]
    /\ lastOp' = Op("tax", <<0, 0>>, "", TRUE, <<>>)
    /\ commands' = commands + 1
    /\ UNCHANGED <<seed, tiles, structures, heap, ticks, panels>>

Next ==
    \/ \E c \in Sites, t \in StructureTypes : BuildStructure(c, t)
    \/ \E c \in Sites : DestroyStructure(c)
    \/ Tick
    \/ \E p \in TaxRates : SetTaxRate(p)

Spec == Init /\ [][Next]_vars

\* a new game only
SpecNew == InitNew /\ [][Next]_vars

----------------------------------------------------------------------------
(* The Economy called directly: buildStructure takes any string as its     *)
(* structure type, the buttons of the ActionsPanel pass only the four.     *)

\* a structure type the cost table does not list
OtherTypes == {"tower"}

NextEconomy ==
    \/ Next
    \/ \E c \in Sites, t \in OtherTypes : BuildStructure(c, t)

SpecEconomy == Init /\ [][NextEconomy]_vars

----------------------------------------------------------------------------
(* Leaving and reopening the game: the page's beforeunload handler calls   *)
(* Game.stop(), which saves, and the next Game.init() loads the save.      *)

\* Game.saveGame(): the save data JSON.stringify writes
saveGame(s, st) ==
    [seed      |-> s,
     gameState |-> [money |-> st.gameState.money, food |-> st.gameState.food,
                    wood |-> st.gameState.wood,
                    population |-> st.gameState.population,
                    employed |-> st.gameState.employed,
                    incomeTaxRate |-> st.gameState.incomeTaxRate,
                    time |-> st.gameState.time],
     world     |-> [seed |-> s,
                    tiles |-> [c \in DOMAIN st.tiles |->
                       TileJSON(st.tiles[c],
                                IF st.tiles[c].structure = Null THEN <<>>
                                ELSE <<st.heap[st.tiles[c].structure]>>)]],
     economy   |-> [structures |->
                       [i \in 1..Len(st.structures) |-> st.heap[st.structures[i].ref]]]]

\* Game.stop() and the Game.init() of the next visit
Reload ==
    /\ commands < MaxCommands
    /\ Install(loadGame(saveGame(seed, State)))
    /\ lastOp' = Op("load", <<0, 0>>, "", TRUE, <<>>)
    /\ commands' = commands + 1
    /\ UNCHANGED <<seed, ticks, panels>>

NextReload ==
    \/ Next
    \/ Reload

SpecReload == Init /\ [][NextReload]_vars

----------------------------------------------------------------------------
(* The Game with its panels: the buttons and the slider act on the          *)
(* instances the panels were constructed with, Game.tick and saveGame on    *)
(* the instances in the Game's fields.                                      *)

\* the instances the panels use
PanelState == IF panels.shared THEN State ELSE panels.st

\* the panels' instances after an operation of theirs
InstallPanels(st) ==
    IF panels.shared
    THEN Install(st) /\ panels' = panels
    ELSE /\ panels' = [panels EXCEPT !.st = st]
         /\ UNCHANGED <<tiles, structures, heap, gameState>>

\* the cost table of ActionsPanel.render
PanelCost(structureType) ==
    CASE structureType = "house"  ->
            [money |-> Tenths(100), wood |-> Tenths(50), food |-> 0]
      [] structureType = "farm"   ->
            [money |-> Tenths(80), wood |-> Tenths(30), food |-> Tenths(10)]
      [] structureType = "mine"   ->
            [money |-> Tenths(120), wood |-> Tenths(60), food |-> 0]
      [] structureType = "lumber" ->
            [money |-> Tenths(50), wood |-> Tenths(20), food |-> 0]

\* ActionsPanel.render: canAfford of the button of `structureType`, the
\* selected tile being at c
canAfford(st, c, structureType) ==
    /\ st.gameState.money >= PanelCost(structureType).money
    /\ st.gameState.wood >= PanelCost(structureType).wood
    /\ st.gameState.food >= PanelCost(structureType).food
    /\ st.tiles[c].structure = Null
    /\ canBuildStructure(seed, st.tiles, c, structureType).canBuild

\* a click on a build button of the ActionsPanel, the camera being at c
PanelBuild(c, structureType) ==
    LET selected == [PanelState EXCEPT !.tiles = getTile(seed, @, c)]
        result   == buildStructure(seed, selected, c, structureType)
    IN  /\ commands < MaxCommands
        /\ canAfford(selected, c, structureType)
        /\ InstallPanels(IF result.success THEN result.st
                         ELSE [result.st EXCEPT !.gameState =
                                  addMessage(@, result.reason, "error")])
        /\ lastOp' = Op("build", c, structureType, result.success, result.reason)
        /\ commands' = commands + 1
        /\ UNCHANGED <<seed, ticks>>

\* a click on the Demolish button of the ActionsPanel, the camera being at c
PanelDemolish(c) ==
    LET selected == [PanelState EXCEPT !.tiles = getTile(seed, @, c)]
    IN  /\ commands < MaxCommands
        /\ selected.tiles[c].structure # Null
        /\ InstallPanels(Collect(destroyStructure(seed, selected, c)))
        /\ lastOp' = Op("destroy", c, "", TRUE, <<>>)
        /\ commands' = commands + 1
        /\ UNCHANGED <<seed, ticks>>

\* StatsPanel slider.oninput: this.gameState.incomeTaxRate = parseInt(value) / 100
PanelSetTaxRate(percent) ==
    /\ commands < MaxCommands
    /\ InstallPanels([PanelState EXCEPT !.gameState.incomeTaxRate = percent])
    /\ lastOp' = Op("tax", <<0, 0>>, percent, TRUE, <<>>)
    /\ commands' = commands + 1
    /\ UNCHANGED <<seed, ticks>>

NextGame ==
    \/ \E c \in Sites, t \in StructureTypes : PanelBuild(c, t)
    \/ \E c \in Sites : PanelDemolish(c)
    \/ \E p \in TaxRates : PanelSetTaxRate(p)
    \/ Tick

SpecGame == Init /\ [][NextGame]_vars

----------------------------------------------------------------------------
(* The World on its own: a new World(seed) and calls of its lookups *)

\* getTiles is called with grid sizes 1..MaxGridSize
MaxGridSize == 4

Centers == {<<0, 0>>, <<1, 0>>, <<-3, 2>>}

\* the seeds of the worlds looked at on their own: those of the games, the
\* plateau of seed 4 and the slope of seed 7
WorldSeeds == Seeds \cup {4, 7}

\* new World(seed)
InitWorld ==
    /\ seed \in WorldSeeds
    /\ tiles = <<>>
    /\ structures = <<>>
    /\ heap = <<>>
    /\ gameState = NewGameState
    /\ lastOp = Op("init", <<0, 0>>, "", TRUE, <<>>)
    /\ commands = 0
    /\ ticks = 0
    /\ panels = SharedPanels

\* world.getTile(x, y)
GetTile(c) ==
    /\ commands < MaxCommands
    /\ tiles' = getTile(seed, tiles, c)
    /\ lastOp' = [op |-> "getTile", at |-> c, tile |-> tiles'[c]]
    /\ commands' = commands + 1
    /\ UNCHANGED <<seed, structures, heap, gameState, ticks, panels>>

\* world.getTiles(centerX, centerY, gridSize)
GetTiles(c, gridSize) ==
    LET result == getTiles(seed, tiles, c, gridSize)
    IN  /\ commands < MaxCommands
        /\ tiles' = result.store
        /\ lastOp' = [op |-> "getTiles", at |-> c, gridSize |-> gridSize,
                      tiles |-> result.tiles]
        /\ commands' = commands + 1
        /\ UNCHANGED <<seed, structures, heap, gameState, ticks, panels>>

NextWorld ==
    \/ \E c \in Centers : GetTile(c)
    \/ \E c \in Centers, gridSize \in 1..MaxGridSize : GetTiles(c, gridSize)

SpecWorld == InitWorld /\ [][NextWorld]_vars

----------------------------------------------------------------------------
(* The GameState on its own: a new GameState() and calls of addMessage *)

\* addMessage is called at most MaxMessages times
MaxMessages == 12

Texts == {<<"Game loaded">>, <<"Farm went bankrupt due to high taxes">>}

InitLog ==
    /\ seed \in {1}
    /\ tiles = <<>>
    /\ structures = <<>>
    /\ heap = <<>>
    /\ gameState = NewGameState
    /\ lastOp = Op("init", <<0, 0>>, "", TRUE, <<>>)
    /\ commands = 0
    /\ ticks = 0
    /\ panels = SharedPanels

\* gameState.addMessage(text, type)
AddMessage(text, type) ==
    /\ commands < MaxMessages
    /\ gameState' = addMessage(gameState, text, type)
    /\ lastOp' = [op |-> "addMessage", text |-> text, type |-> type]
    /\ commands' = commands + 1
    /\ UNCHANGED <<seed, tiles, structures, heap, ticks, panels>>

NextLog ==
    \E text \in Texts : AddMessage(text, IF text = <<"Game loaded">> THEN "success" ELSE "warning")

SpecLog == InitLog /\ [][NextLog]_vars

----------------------------------------------------------------------------
(* Properties *)

\* the tile at c as an operation finds it: the stored one, else the generated one
TileAt(c) == IF c \in DOMAIN tiles THEN tiles[c] ELSE generateTile(seed, c)

StepIs(op) == lastOp'.op = op

Money == <<"Not enough money">>
Wood == <<"Not enough wood">>
Food == <<"Not enough food">>
Occupied == <<"Tile already occupied">>

\* C1: tiles and the structure set agree: at most one structure per
\* coordinate in the structure set; a stored tile refers to a structure
\* exactly when the set holds one at the tile's coordinate, and then to that
\* very object, which is registered at this coordinate and no other.
C1_TilesAgree ==
    /\ \A i, j \in 1..Len(structures) :
          structures[i].key = structures[j].key => i = j
    /\ \A i \in 1..Len(structures) :
          /\ structures[i].key \in DOMAIN tiles
          /\ structures[i].ref \in DOMAIN heap
          /\ structures[i].key =
                <<heap[structures[i].ref].x, heap[structures[i].ref].y>>
    /\ \A c \in DOMAIN tiles :
          /\ tiles[c].structure # Null <=> MapGet(structures, c) # Null
          /\ tiles[c].structure = MapGet(structures, c)

\* a farm built on a site went bankrupt in a tick and its tile is free again
C1_Witness ==
    /\ lastOp.op = "tick"
    /\ \E c \in Sites, i, j \in 1..Len(gameState.messages) :
          /\ gameState.messages[i].text = <<"Built", "farm", ToString(c[1]), ToString(c[2])>>
          /\ gameState.messages[j].text = <<"Farm went bankrupt due to high taxes">>
          /\ tiles[c].structure = Null
          /\ MapGet(structures, c) = Null

\* the cost table and the altitude limits as the specification lists them
CostTable(type) ==
    CASE type = "house"  -> [money |-> 1000, wood |-> 500, food |-> 0]
      [] type = "farm"   -> [money |-> 800,  wood |-> 300, food |-> 100]
      [] type = "mine"   -> [money |-> 1200, wood |-> 600, food |-> 0]
      [] type = "lumber" -> [money |-> 500,  wood |-> 200, food |-> 0]

AltitudeLimit(type) ==
    CASE type = "house" -> 1 [] type = "farm" -> 1
      [] type = "lumber" -> 2 [] type = "mine" -> 3

Affordable(type) ==
    /\ gameState.money >= CostTable(type).money
    /\ gameState.wood >= CostTable(type).wood
    /\ gameState.food >= CostTable(type).food

Flat(c, type) ==
    \A d \in {<<c[1] - 1, c[2]>>, <<c[1] + 1, c[2]>>,
              <<c[1], c[2] - 1>>, <<c[1], c[2] + 1>>} :
        Abs(TileAt(d).altitude - TileAt(c).altitude) <= AltitudeLimit(type)

Eligible(c, type) ==
    /\ TileAt(c).altitude >= 0
    /\ ~TileAt(c).isForest
    /\ Flat(c, type)

TerrainReason(c, type) ==
    IF TileAt(c).altitude < 0 THEN <<"Cannot build on water">>
    ELSE IF TileAt(c).isForest THEN <<"Cannot build on forest">>
    ELSE <<"Terrain too steep for", type>>

\* C2: buildStructure checks money, wood, food, terrain and occupancy in
\* this order and reports the first failure: the money reason whenever money
\* is short, whatever else holds; the terrain reason when the resources
\* suffice and the terrain is ineligible, also on an occupied tile.
C2_FirstFailureWins ==
    [][StepIs("build") =>
        LET c    == lastOp'.at
            type == lastOp'.type
            cost == CostTable(type)
            failsWith(reason) == ~lastOp'.success /\ lastOp'.reason = reason
        IN  /\ gameState.money < cost.money => failsWith(Money)
            /\ gameState.money >= cost.money /\ gameState.wood < cost.wood
                  => failsWith(Wood)
            /\ gameState.money >= cost.money /\ gameState.wood >= cost.wood
                  /\ gameState.food < cost.food
                  => failsWith(Food)
            /\ Affordable(type) /\ ~Eligible(c, type)
                  => failsWith(TerrainReason(c, type))
            /\ Affordable(type) /\ Eligible(c, type) /\ TileAt(c).structure # Null
                  => failsWith(Occupied)
    ]_vars

\* a build short of money was refused for the money on a tile that is under
\* water, forested or occupied as well
C2_Witness ==
    /\ lastOp.op = "build"
    /\ ~lastOp.success
    /\ lastOp.reason = Money
    /\ \/ tiles[lastOp.at].altitude < 0
       \/ tiles[lastOp.at].isForest
       \/ tiles[lastOp.at].structure # Null

\* a build the player can pay for was refused for the terrain on an occupied tile
C2_SteepAndOccupied ==
    /\ lastOp.op = "build"
    /\ ~lastOp.success
    /\ lastOp.reason = <<"Terrain too steep for", lastOp.type>>
    /\ tiles[lastOp.at].structure # Null

\* C3: a build is all or nothing: it succeeds, deducting the whole cost and
\* registering the structure, or it fails with a reason and leaves money,
\* wood, food, population, the message log, the structure set and every
\* stored tile as they were; a failed build adds at most freshly generated
\* tiles (the target and its four neighbours) to the store.
C3_BuildAtomic ==
    [][StepIs("build") =>
        LET c    == lastOp'.at
            type == lastOp'.type
            cost == CostTable(type)
        IN  IF lastOp'.success
            THEN /\ gameState'.money = gameState.money - cost.money
                 /\ gameState'.wood = gameState.wood - cost.wood
                 /\ gameState'.food = gameState.food - cost.food
                 /\ MapGet(structures', c) # Null
                 /\ MapGet(structures, c) = Null
                 /\ heap'[MapGet(structures', c)].type = type
            ELSE /\ lastOp'.reason # <<>>
                 /\ gameState' = gameState
                 /\ structures' = structures
                 /\ heap' = heap
                 /\ \A d \in DOMAIN tiles : d \in DOMAIN tiles' /\ tiles'[d] = tiles[d]
                 /\ \A d \in DOMAIN tiles' \ DOMAIN tiles :
                       /\ d \in {c, <<c[1] - 1, c[2]>>, <<c[1] + 1, c[2]>>,
                                 <<c[1], c[2] - 1>>, <<c[1], c[2] + 1>>}
                       /\ tiles'[d] = generateTile(seed, d)
    ]_vars

\* a build was refused for the steepness of the terrain after a structure had
\* been built; the neighbours it looked at, and no tile beyond, were generated
C3_Witness ==
    /\ lastOp.op = "build"
    /\ ~lastOp.success
    /\ lastOp.reason = <<"Terrain too steep for", lastOp.type>>
    /\ lastOp.at = <<5, 0>>
    /\ <<5, 1>> \in DOMAIN tiles
    /\ <<6, 1>> \notin DOMAIN tiles
    /\ gameState.money < Tenths(500)
    /\ Len(structures) > 0

\* C4: a successful build of a house, farm, mine or lumber structure lowers
\* money, wood and food by exactly its entry of the cost table (100/50/0,
\* 80/30/10, 120/60/0, 50/20/0) and creates a level 1 structure of the type
\* at the tile's coordinate with the type's default data; from 500 money,
\* 100 wood and 50 food a house leaves 400, 50 and 50 and a level 1 house
\* with residents 0 and capacity 5.
C4_BuildCosts ==
    [][StepIs("build") /\ lastOp'.success =>
        LET c    == lastOp'.at
            type == lastOp'.type
            cost == CostTable(type)
            made == heap'[MapGet(structures', c)]
        IN  /\ gameState'.money = gameState.money - cost.money
            /\ gameState'.wood = gameState.wood - cost.wood
            /\ gameState'.food = gameState.food - cost.food
            /\ made.type = type /\ made.level = 1
            /\ <<made.x, made.y>> = c
            /\ made.data =
                 CASE type = "house"  -> [residents |-> 0, capacity |-> 5]
                   [] type = "farm"   -> [production |-> 0, foodPerTick |-> 5]
                   [] type = "mine"   -> [resourceLevel |-> "stone", extractedStone |-> 0]
                   [] type = "lumber" -> [woodPerTick |-> 5]
            /\ (type = "house" /\ gameState.money = 5000 /\ gameState.wood = 1000
                   /\ gameState.food = 500)
                 => /\ gameState'.money = 4000
                    /\ gameState'.wood = 500
                    /\ gameState'.food = 500
                    /\ made.data.residents = 0 /\ made.data.capacity = 5
    ]_vars

\* the first command of a new game built a house
C4_Witness ==
    /\ lastOp.op = "build" /\ lastOp.success /\ lastOp.type = "house"
    /\ commands = 1 /\ ticks = 0
    /\ gameState.money = 4000 /\ gameState.wood = 500 /\ gameState.food = 500
    /\ heap[MapGet(structures, lastOp.at)].data = [residents |-> 0, capacity |-> 5]
    /\ heap[MapGet(structures, lastOp.at)].level = 1

\* C5: a build succeeds exactly when the player can pay for it, the target
\* tile is at altitude >= 0, is no forest, holds no structure, and each of
\* its four axis-adjacent neighbours differs from it in altitude by at most
\* the limit of the type (house 1, farm 1, lumber 2, mine 3).
C5_BuildEligibility ==
    [][StepIs("build") =>
        LET c    == lastOp'.at
            type == lastOp'.type
        IN  lastOp'.success <=>
              /\ Affordable(type)
              /\ TileAt(c).altitude >= 0
              /\ ~TileAt(c).isForest
              /\ TileAt(c).structure = Null
              /\ Flat(c, type)
    ]_vars

\* a mine was built next to a neighbour three levels away
C5_Witness ==
    /\ lastOp.op = "build" /\ lastOp.success /\ lastOp.type = "mine"
    /\ \E d \in {<<lastOp.at[1] - 1, lastOp.at[2]>>, <<lastOp.at[1] + 1, lastOp.at[2]>>} :
          Abs(tiles[d].altitude - tiles[lastOp.at].altitude) = 3

\* the objects the structure set holds
Registered(map, h) == {h[map[i].ref] : i \in 1..Len(map)}

\* C6: destroyStructure(x, y) removes the structure at (x, y) from the
\* structure set and clears that tile's reference; with no structure there
\* it changes nothing; either way money, wood, food and population stay (no
\* refund) and every other structure and tile reference is untouched.
C6_Destroy ==
    [][StepIs("destroy") =>
        LET c == lastOp'.at
        IN  /\ MapGet(structures', c) = Null
            /\ c \in DOMAIN tiles' => tiles'[c].structure = Null
            /\ MapGet(structures, c) = Null =>
                  /\ tiles' = tiles
                  /\ structures' = structures
                  /\ heap' = heap
            /\ gameState' = gameState
            /\ \A d \in Coords \ {c} :
                  /\ MapGet(structures', d) = MapGet(structures, d)
                  /\ MapGet(structures, d) # Null =>
                        heap'[MapGet(structures, d)] = heap[MapGet(structures, d)]
                  /\ d \in DOMAIN tiles => d \in DOMAIN tiles' /\ tiles'[d] = tiles[d]
            /\ Len(structures') =
                  IF MapGet(structures, c) = Null THEN Len(structures)
                  ELSE Len(structures) - 1
    ]_vars

\* a structure was demolished while another one stands, and nothing was paid back
C6_Witness ==
    /\ lastOp.op = "destroy"
    /\ commands = 1 /\ ticks = 0
    /\ Len(structures) = 2
    /\ lastOp.at = <<0, 0>>
    /\ seed = 2 /\ gameState.money = Tenths(200)
    /\ lastOp.at \in DOMAIN tiles
    /\ tiles[lastOp.at].structure = Null

C8_Starvation ==
    /\ gameState.food >= 0 /\ gameState.population >= 0
    /\ [][/\ gameState'.food >= 0 /\ gameState'.population >= 0
          /\ StepIs("tick") =>
               LET left == gameState.food - gameState.population * 5
               IN  /\ left >= 0 => gameState'.food = left
                   /\ left < 0 =>
                        /\ gameState'.food = 0
                        /\ gameState'.population = gameState.population
                              - Min(CeilDiv(-left, 50), gameState.population)
                   /\ (gameState.population = 20 /\ gameState.food = 50)
                        => gameState'.population = 19 /\ gameState'.food = 0
       ]_vars

\* one of twenty people left in a tick that began with food 5
C8_Witness ==
    /\ lastOp.op = "tick" /\ ticks = 1
    /\ gameState.population = 19
    /\ gameState.food = 0
    /\ \E i \in 1..Len(gameState.messages) :
          gameState.messages[i].text = <<"1", "people left due to hunger">>

MinesOf(map, h) == {map[i].ref : i \in {j \in 1..Len(map) : h[map[j].ref].type = "mine"}}

TierRank(resourceLevel) ==
    CASE resourceLevel = "stone" -> 1 [] resourceLevel = "iron" -> 2
      [] resourceLevel = "uranium" -> 3

\* the stone, iron or uranium of the 9x9 square around c, after the scan
Available(store, c, resource) ==
    SumOver([k \in Square(c, 4) |-> store[k].resources[resource]], Square(c, 4))

\* C9: in a tick a stone mine adds min(1, stone in its 9x9 square) to its
\* extracted amount, an iron mine min(0.5, iron in its square); in the very
\* tick the amount reaches 100 the mine moves to the next tier (stone to iron,
\* iron to uranium) with the amount back at 0; a uranium mine stays as it is.
\* No step moves a mine's tier backwards, and between operations the
\* extracted amount is at least 0 and below 100.
C9_MineTiers ==
    /\ \A r \in MinesOf(structures, heap) :
          heap[r].data.extractedStone >= 0 /\ heap[r].data.extractedStone < 1000
    /\ [][/\ \A r \in MinesOf(structures', heap') :
                /\ heap'[r].data.extractedStone >= 0
                /\ heap'[r].data.extractedStone < 1000
                /\ r \in MinesOf(structures, heap) =>
                      TierRank(heap'[r].data.resourceLevel)
                          >= TierRank(heap[r].data.resourceLevel)
          /\ StepIs("tick") =>
                \A r \in MinesOf(structures, heap) :
                   LET mine   == heap[r]
                       after  == heap'[r].data
                       tier   == mine.data.resourceLevel
                       c      == <<mine.x, mine.y>>
                       gain   == IF tier = "stone"
                                 THEN Min(10, 10 * Available(tiles', c, "stone"))
                                 ELSE Min(5, 10 * Available(tiles', c, "iron"))
                       amount == mine.data.extractedStone + gain
                   IN  /\ r \in MinesOf(structures', heap')
                       /\ tier = "uranium" => after = mine.data
                       /\ tier # "uranium" /\ amount >= 1000 =>
                             /\ after.resourceLevel =
                                   (IF tier = "stone" THEN "iron" ELSE "uranium")
                             /\ after.extractedStone = 0
                       /\ tier # "uranium" /\ amount < 1000 =>
                             /\ after.resourceLevel = tier
                             /\ after.extractedStone = amount
       ]_vars

\* one tick took a stone mine to iron and an iron mine to uranium, both with
\* the extracted amount back at 0
C9_Witness ==
    /\ lastOp.op = "tick" /\ ticks = 1 /\ commands = 0
    /\ \E r1, r2 \in MinesOf(structures, heap) :
          /\ heap[r1].data = [resourceLevel |-> "iron", extractedStone |-> 0]
          /\ heap[r2].data = [resourceLevel |-> "uranium", extractedStone |-> 0]
          /\ <<heap[r1].x, heap[r1].y>> = <<0, 0>>
          /\ <<heap[r2].x, heap[r2].y>> = <<1, 0>>
    /\ \E i, j \in 1..Len(gameState.messages) :
          /\ gameState.messages[i].text = <<"Mine upgraded to iron extraction">>
          /\ gameState.messages[j].text = <<"Mine upgraded to uranium extraction">>

\* the wood the mines add in a tick: half the stone mined, the iron mined,
\* twice the uranium mined
MineWood(map, h, store) ==
    LET mines == MinesOf(map, h)
        wood(r) ==
            LET c    == <<h[r].x, h[r].y>>
                tier == h[r].data.resourceLevel
            IN  CASE tier = "stone" -> Min(10, 10 * Available(store, c, "stone")) \div 2
                  [] tier = "iron" -> Min(5, 10 * Available(store, c, "iron"))
                  [] tier = "uranium" -> 2 * Min(2, 10 * Available(store, c, "uranium"))
    IN  SumOver([r \in mines |-> wood(r)], mines)

\* C10: in a tick every lumber structure with a tile of isForest and
\* forestHealth > 0 in its 17x17 square adds exactly 0.5 x level to wood,
\* however many such tiles there are; a lumber structure with no such tile
\* adds nothing and changes no tile.  Lumber structures take their turns in
\* registration order and one turn lowers a tile's health by at most 0.1, so a
\* tile that starts the tick with more than 0.1 x (number of earlier lumber
\* structures) is still there at the structure's turn.
C10_LumberProduction ==
    [][StepIs("tick") =>
         LET lumbers    == {i \in 1..Len(structures) :
                               heap[structures[i].ref].type = "lumber"}
             lumber(i)  == heap[structures[i].ref]
             forests(i) == {k \in Square(<<lumber(i).x, lumber(i).y>>, 8) :
                               TileAt(k).isForest /\ TileAt(k).forestHealth > 0}
             earlier(i) == Cardinality({j \in lumbers : j < i})
             certain    == {i \in lumbers :
                               \E k \in forests(i) : TileAt(k).forestHealth > earlier(i)}
             possible   == {i \in lumbers : forests(i) # {}}
             yield(S)   == SumOver([i \in S |-> 5 * lumber(i).level], S)
             produced   == gameState'.wood - gameState.wood
                              - MineWood(structures, heap, tiles')
         IN  /\ yield(certain) <= produced
             /\ produced <= yield(possible)
             /\ \A k \in DOMAIN tiles' :
                   \/ /\ tiles'[k].isForest = TileAt(k).isForest
                      /\ tiles'[k].forestHealth = TileAt(k).forestHealth
                   \/ \E i \in possible : k \in forests(i)
       ]_vars

\* a tick in which the level 2 lumber structure at (0,0), with three forest
\* tiles in range, added 1.0 wood and wore its forest, and the lumber
\* structure at (1,0), with none in range, added nothing
C10_Witness ==
    /\ lastOp.op = "tick" /\ ticks = 1 /\ commands = 0
    /\ seed = 2
    /\ \E i, j \in 1..Len(structures) :
          /\ structures[i].key = <<0, 0>> /\ heap[structures[i].ref].type = "lumber"
          /\ heap[structures[i].ref].level = 2
          /\ structures[j].key = <<1, 0>> /\ heap[structures[j].ref].type = "lumber"
    /\ Len(structures) = 2
    /\ gameState.wood = 310
    /\ Cardinality({k \in Square(<<0, 0>>, 8) : tiles[k].isForest}) >= 2
    /\ ~tiles[<<-8, -2>>].isForest
    /\ \A k \in Square(<<1, 0>>, 8) : ~tiles[k].isForest /\ k \in DOMAIN tiles

\* C11: mining never depletes the map: no step (tick, build, demolish, tax
\* rate) changes the altitude or the stone, iron or uranium of a stored tile,
\* and a tile a step generates is stored with the quantities it was generated
\* with; a mine's scan only sums them.
C11_ResourcesKept ==
    [][\/ tiles' = tiles
       \/ \A c \in DOMAIN tiles' :
             \/ c \in DOMAIN tiles /\ tiles'[c] = tiles[c]
             \/ /\ tiles'[c].altitude = TileAt(c).altitude
                /\ tiles'[c].resources = TileAt(c).resources
      ]_vars

\* a tick in which a newly built mine extracted 1 stone and moved wood, with
\* every tile of its 9x9 square stored
C11_Witness ==
    /\ lastOp.op = "tick"
    /\ gameState.wood = Tenths(100) - 600 + 5
    /\ \E r \in MinesOf(structures, heap) :
          /\ heap[r].data = [resourceLevel |-> "stone", extractedStone |-> 10]
          /\ \A k \in Square(<<heap[r].x, heap[r].y>>, 4) :
                k \in DOMAIN tiles /\ tiles[k].resources.stone >= 50

\* the coordinates the scans of a tick look up
Scanned(map, h) ==
    UNION {LET st == h[map[i].ref]
           IN  IF st.type = "lumber" THEN Square(<<st.x, st.y>>, 8)
               ELSE IF st.type = "mine" THEN Square(<<st.x, st.y>>, 4)
               ELSE {} : i \in 1..Len(map)}

\* C12: the store is a cache.  A lookup of a stored coordinate returns the
\* stored tile, not a regenerated one: forest health never rises, a tile that
\* lost its forest does not get it back, and a tile's structure changes only
\* where the operation builds or removes one.  A miss stores one tile, the
\* generated one, under its own coordinate, and only for coordinates the
\* operation looks up.  No operation removes a tile, so the stored coordinates
\* only grow.
C12_StoreCaches ==
    [][\/ tiles' = tiles
       \/ LET new == DOMAIN tiles' \ DOMAIN tiles
          IN
          /\ DOMAIN tiles \subseteq DOMAIN tiles'
          /\ StepIs("build") \/ StepIs("destroy") \/ StepIs("tick")
          /\ StepIs("build") =>
                new \subseteq {lastOp'.at} \cup {Neighbors(lastOp'.at)[i] : i \in 1..4}
          /\ StepIs("destroy") => new = {}
          /\ StepIs("tick") => new \subseteq Scanned(structures, heap)
          /\ \A c \in DOMAIN tiles :
                \/ tiles'[c] = tiles[c]
                \/ /\ <<tiles'[c].x, tiles'[c].y>> = c
                   /\ tiles'[c].forestHealth <= tiles[c].forestHealth
                   /\ tiles'[c].isForest => tiles[c].isForest
                   /\ ~StepIs("tick") =>
                         /\ tiles'[c].forestHealth = tiles[c].forestHealth
                         /\ tiles'[c].isForest = tiles[c].isForest
                   /\ tiles'[c].structure # tiles[c].structure =>
                         \/ StepIs("build") /\ lastOp'.success /\ lastOp'.at = c
                              /\ tiles[c].structure = Null
                         \/ StepIs("destroy") /\ lastOp'.at = c
                              /\ tiles'[c].structure = Null
                         \/ StepIs("tick") /\ tiles'[c].structure = Null
                              /\ heap[tiles[c].structure].type = "farm"
                              /\ gameState.incomeTaxRate >= 100
          /\ \A c \in new :
                LET made == generateTile(seed, c)
                IN  /\ <<tiles'[c].x, tiles'[c].y>> = c
                    /\ StepIs("build") =>
                          [tiles'[c] EXCEPT !.structure = Null] = made
                    /\ StepIs("tick") =>
                          /\ [tiles'[c] EXCEPT !.forestHealth = made.forestHealth,
                                               !.isForest = made.isForest] = made
                          /\ tiles'[c].forestHealth \in
                                (made.forestHealth - Len(structures))..made.forestHealth
      ]_vars

\* a tick on a loaded game found the worn forest tile as the save left it, at
\* its last tenth, and cut it down (a regenerated tile would be back at 70 or
\* more and still forest); the forest tiles after it in its column kept their
\* health
C12_Witness ==
    /\ lastOp.op = "tick"
    /\ \E c \in DOMAIN tiles :
          /\ generateTile(seed, c).isForest
          /\ ~tiles[c].isForest /\ tiles[c].forestHealth = 0
          /\ tiles[<<c[1], c[2] + 1>>].isForest
          /\ tiles[<<c[1], c[2] + 1>>].forestHealth >= 700

\* C13: the generated fields of a tile depend on (seed, x, y) alone.  In
\* every reachable state, whatever the order in which the coordinates were
\* first looked up and whichever operation stored them (the render's
\* getTiles, getTile of the selected tile, the neighbour lookup of
\* canBuildStructure, a lumber or mine scan, a load), every stored tile has
\* the altitude and the stone, iron and uranium the generator gives for its
\* coordinate under the world's seed, is forest only where the generator
\* makes forest, and has at most the generated forest health.
C13_GenerationDeterministic ==
    \A c \in DOMAIN tiles :
        LET made == generateTile(seed, c)
        IN  /\ tiles[c].altitude = made.altitude
            /\ tiles[c].resources = made.resources
            /\ tiles[c].isForest => made.isForest
            /\ tiles[c].forestHealth <= made.forestHealth

\* in a new game the render stored the square around the camera, a build at
\* (5,0) stored the selected tile and its neighbours, and the lumber scan of a
\* tick stored the tiles up to (13,8)
C13_Witness ==
    /\ lastOp.op = "tick"
    /\ \A i \in 1..Len(gameState.messages) :
          gameState.messages[i].text # <<"Game loaded">>
    /\ MapGet(structures, <<5, 0>>) # Null
    /\ heap[MapGet(structures, <<5, 0>>)].type = "lumber"
    /\ <<13, 8>> \in DOMAIN tiles
    /\ <<-4, -4>> \in DOMAIN tiles
    /\ <<-5, -4>> \notin DOMAIN tiles

\* C15: getTiles(centerX, centerY, size) returns, for every size >= 1, odd or
\* even, exactly size x size tiles forming a square centred on the centre, in
\* row-major order from the top-left tile (y ascending from row to row, x
\* ascending within a row), and every returned tile is in the store
\* afterwards.
C15_GetTilesSquare ==
    [][StepIs("getTiles") =>
         LET size   == lastOp'.gridSize
             result == lastOp'.tiles
             c      == lastOp'.at
         IN  /\ Len(result) = size * size
             /\ <<result[1].x, result[1].y>> = <<c[1] - (size \div 2), c[2] - (size \div 2)>>
             /\ \E i \in 1..Len(result) : <<result[i].x, result[i].y>> = c
             /\ \A i \in 1..(Len(result) - 1) :
                   \/ /\ result[i + 1].y = result[i].y
                      /\ result[i + 1].x = result[i].x + 1
                   \/ /\ result[i + 1].y = result[i].y + 1
                      /\ result[i + 1].x = result[1].x
             /\ \A i \in 1..Len(result) :
                   /\ <<result[i].x, result[i].y>> \in DOMAIN tiles'
                   /\ tiles'[<<result[i].x, result[i].y>>] = result[i]
      ]_vars

\* what getTiles does: the square has 2 x floor(size / 2) + 1 tiles a side,
\* which is size for an odd size and size + 1 for an even one
C15_GetTilesOddSide ==
    [][StepIs("getTiles") =>
         LET size   == lastOp'.gridSize
             side   == 2 * (size \div 2) + 1
             result == lastOp'.tiles
             c      == lastOp'.at
         IN  /\ Len(result) = side * side
             /\ \A i \in 1..Len(result) :
                   /\ <<result[i].x, result[i].y>> =
                         <<c[1] - (size \div 2) + ((i - 1) % side),
                           c[2] - (size \div 2) + ((i - 1) \div side)>>
                   /\ tiles'[<<result[i].x, result[i].y>>] = result[i]
      ]_vars

\* what a save keeps of a state: the tiles with the structure each shows, the
\* structures of the Economy in their order, the saved fields of GameState
Persisted(store, map, h, gs) ==
    [tiles      |-> [c \in DOMAIN store |->
                       [store[c] EXCEPT !.structure =
                           IF @ = Null THEN <<>> ELSE <<h[@]>>]],
     structures |-> [i \in 1..Len(map) |-> [key |-> map[i].key, value |-> h[map[i].ref]]],
     gameState  |-> [gs EXCEPT !.messages = <<>>]]

\* the structure every tile shows is, in type, level and data, the Economy's
\* structure at the tile's coordinate
BackReferencesAgree ==
    \A c \in DOMAIN tiles :
        tiles[c].structure # Null =>
            /\ MapGet(structures, c) # Null
            /\ heap[tiles[c].structure] = heap[MapGet(structures, c)]

\* C14: a state reached by builds, demolitions and ticks that is saved and
\* loaded again equals the saved one field for field, no persisted tile is
\* regenerated, and what follows is as on the never-saved original: in
\* particular every tile's structure back-reference keeps showing the type,
\* level and data of the Economy's structure at its coordinate, also after a
\* mine's tier upgrade.
C14_SaveLoadRoundTrip ==
    /\ BackReferencesAgree
    /\ [][/\ StepIs("load") =>
                Persisted(tiles', structures', heap', gameState')
                    = Persisted(tiles, structures, heap, gameState)
          /\ BackReferencesAgree'
       ]_vars

\* the load alone: saving and loading keeps every persisted field
C14_LoadKeepsFields ==
    [][StepIs("load") =>
          Persisted(tiles', structures', heap', gameState')
              = Persisted(tiles, structures, heap, gameState)
      ]_vars

\* C16: every generated tile has stone in [50,150]; with |altitude| < 5 its
\* iron is in [20,80] (never the looser band), with 5 < |altitude| < 10 in
\* [5,30], with |altitude| > 10 it is 0; with |altitude| < 3 its uranium is in
\* [1,10], with 3 < |altitude| < 8 in [0,5], with |altitude| > 8 it is 0.
\* Altitude 4 gives iron in [20,80], altitude 7 iron in [5,30], altitude 12
\* iron 0.
C16_ResourceBands ==
    \A c \in DOMAIN tiles :
        LET a == Abs(tiles[c].altitude)
            r == tiles[c].resources
        IN  /\ r.stone \in 50..150
            /\ a < 5 => r.iron \in 20..80
            /\ (5 < a /\ a < 10) => r.iron \in 5..30
            /\ a > 10 => r.iron = 0
            /\ a < 3 => r.uranium \in 1..10
            /\ (3 < a /\ a < 8) => r.uranium \in 0..5
            /\ a > 8 => r.uranium = 0
            /\ tiles[c].altitude = 4 => r.iron \in 20..80
            /\ tiles[c].altitude = 7 => r.iron \in 5..30
            /\ tiles[c].altitude = 12 => r.iron = 0

\* a world whose stored tiles include altitudes 4, 7 and 12, with iron above
\* the looser band at altitude 4, and altitudes in every uranium band
C16_Witness ==
    /\ lastOp.op = "getTiles"
    /\ \E c4, c7, c12 \in DOMAIN tiles :
          /\ tiles[c4].altitude = 4 /\ tiles[c4].resources.iron > 30
          /\ tiles[c7].altitude = 7 /\ tiles[c7].resources.iron \in 5..30
          /\ tiles[c12].altitude = 12 /\ tiles[c12].resources.iron = 0
          /\ tiles[c12].resources.uranium = 0
    /\ \E c \in DOMAIN tiles :
          Abs(tiles[c].altitude) < 3 /\ tiles[c].resources.uranium >= 1
    /\ \E c \in DOMAIN tiles :
          /\ Abs(tiles[c].altitude) > 3 /\ Abs(tiles[c].altitude) < 8

\* C17: the message log is bounded.  It never holds more than 10 entries,
\* and a step that changes it keeps the newest of the old entries in their
\* order, drops old entries (the oldest first) only to stay at 10, and puts
\* the added entries behind them; a single addMessage puts its entry last and
\* drops the oldest entry exactly when the log was full.
C17_LogBounded ==
    /\ Len(gameState.messages) <= 10
    /\ [][LET old == gameState.messages
              new == gameState'.messages
          IN  /\ Len(new) <= 10
              /\ new # old /\ ~StepIs("load") =>
                    \E k \in 0..Len(old) :
                       /\ Len(new) >= Len(old) - k
                       /\ SubSeq(new, 1, Len(old) - k) = SubSeq(old, k + 1, Len(old))
                       /\ k > 0 => Len(new) = 10
              /\ StepIs("addMessage") =>
                    /\ new = IF Len(old) = 10
                             THEN Append(Tail(old), new[Len(new)])
                             ELSE Append(old, new[Len(new)])
                    /\ new[Len(new)].text = lastOp'.text
                    /\ new[Len(new)].type = lastOp'.type
       ]_vars

\* the twelfth addMessage: the log holds 10 entries, the last being the one
\* just added, after two entries were dropped
C17_Witness ==
    /\ lastOp.op = "addMessage"
    /\ commands = 12
    /\ Len(gameState.messages) = 10
    /\ gameState.messages[10].text = lastOp.text
    /\ gameState.messages[9].text # lastOp.text
    /\ gameState.messages[1].text = <<"Game loaded">>

C18_OtherTypesAreFree ==
    [][(StepIs("build") /\ lastOp'.type \notin StructureTypes) =>
          /\ lastOp'.success <=>
                /\ TileAt(lastOp'.at).altitude >= 0
                /\ ~TileAt(lastOp'.at).isForest
                /\ TileAt(lastOp'.at).structure = Null
                /\ \A i \in 1..4 :
                      Abs(TileAt(Neighbors(lastOp'.at)[i]).altitude
                            - TileAt(lastOp'.at).altitude) <= 1
          /\ gameState'.money = gameState.money
          /\ gameState'.wood = gameState.wood
          /\ gameState'.food = gameState.food
          /\ lastOp'.success => Len(structures') = Len(structures) + 1
      ]_vars

FarmsOf(map, h) == {i \in 1..Len(map) : h[map[i].ref].type = "farm"}

\* C19: in a tick that starts with incomeTaxRate r < 1 no farm is destroyed,
\* money rises by exactly (10 - 10 r) for every farm, and every farm's
\* foodPerTick becomes 1 + 0.5 x (level - 1).
C19_FarmIncome ==
    [][(StepIs("tick") /\ gameState.incomeTaxRate < 100) =>
          LET farms == FarmsOf(structures, heap)
          IN  /\ structures' = structures
              /\ gameState'.money =
                    gameState.money
                      + (Tenths(10) - gameState.incomeTaxRate) * Cardinality(farms)
              /\ \A i \in farms :
                    LET before == heap[structures[i].ref]
                        after  == heap'[structures[i].ref]
                    IN  /\ after.level = before.level
                        /\ after.data.foodPerTick = 10 + 5 * (before.level - 1)
              /\ \A i \in 1..Len(gameState'.messages) :
                    gameState'.messages[i].text = <<"Farm went bankrupt due to high taxes">>
                       => \E j \in 1..Len(gameState.messages) :
                             gameState.messages[j] = gameState'.messages[i]
      ]_vars

\* a tick under a tax of 50%: the farm of level 3 stays, brought 5 and has
\* foodPerTick 2
C19_Witness ==
    /\ lastOp.op = "tick" /\ commands = 0
    /\ gameState.incomeTaxRate = 50
    /\ gameState.money = Tenths(100) + 50
    /\ \E i \in FarmsOf(structures, heap) :
          /\ heap[structures[i].ref].level = 3
          /\ heap[structures[i].ref].data.foodPerTick = 20

HouseCapacity(map, h) ==
    LET houses == {i \in 1..Len(map) : h[map[i].ref].type = "house"}
    IN  SumOver([i \in houses |-> h[map[i].ref].data.capacity], houses)

\* C21: in a tick, after consumption and starvation, the population rises by
\* exactly min(2, capacity - population) if it is below the total capacity of
\* the houses and food is above 50, and is left as it is otherwise; growth
\* never lifts it above the capacity, and no tick changes employed.
C21_Growth ==
    [][StepIs("tick") =>
          LET left     == gameState.food - gameState.population * 5
              fed      == IF left < 0 THEN 0 ELSE left
              stayed   == IF left < 0
                          THEN gameState.population
                                 - Min(CeilDiv(-left, 50), gameState.population)
                          ELSE gameState.population
              capacity == HouseCapacity(structures, heap)
              grows    == stayed < capacity /\ fed > 500
          IN  /\ grows => gameState'.population = stayed + Min(2, capacity - stayed)
              /\ grows => gameState'.population <= capacity
              /\ ~grows => gameState'.population = stayed
              /\ gameState'.employed = gameState.employed
      ]_vars

\* a tick with four people, one house of capacity 5 and food 58: one person
\* moved in
C21_Witness ==
    /\ lastOp.op = "tick" /\ commands = 0
    /\ gameState.population = 5
    /\ gameState.food = 560
    /\ HouseCapacity(structures, heap) = 5

\* a tick with four people and room for six more: two moved in
C21_GrowsByTwo ==
    /\ lastOp.op = "tick"
    /\ gameState.population = 6
    /\ HouseCapacity(structures, heap) = 10

\* a tick with an empty house and food at exactly 50: nobody moved in
C21_NoGrowthAtFifty ==
    /\ lastOp.op = "tick"
    /\ gameState.population = 0
    /\ gameState.food = 500
    /\ HouseCapacity(structures, heap) >= 5

\* the operations of the game, as the player and the clock issue them
Operations ==
    {[op |-> "build", at |-> c, type |-> t, percent |-> 0] :
        c \in Sites, t \in StructureTypes}
      \cup {[op |-> "destroy", at |-> c, type |-> "", percent |-> 0] : c \in Sites}
      \cup {[op |-> "tax", at |-> <<0, 0>>, type |-> "", percent |-> p] : p \in TaxRates}
      \cup {[op |-> "tick", at |-> <<0, 0>>, type |-> "", percent |-> 0]}

\* the state after operation o
Apply(st, o) ==
    CASE o.op = "build" ->
            buildStructure(seed, [st EXCEPT !.tiles = getTile(seed, st.tiles, o.at)],
                           o.at, o.type).st
      [] o.op = "destroy" -> destroyStructure(seed, st, o.at)
      [] o.op = "tax" -> [st EXCEPT !.gameState.incomeTaxRate = o.percent]
      [] o.op = "tick" -> tick(seed, [st EXCEPT !.gameState.time = @ + 1])

\* some sequence of at most `commandsLeft` commands and `ticksLeft` ticks
\* takes st to a state with money below 0
RECURSIVE CanGoNegative(_, _, _)
CanGoNegative(st, commandsLeft, ticksLeft) ==
    \/ st.gameState.money < 0
    \/ \E o \in Operations :
          /\ IF o.op = "tick" THEN ticksLeft > 0 ELSE commandsLeft > 0
          /\ CanGoNegative(Apply(st, o),
                           IF o.op = "tick" THEN commandsLeft ELSE commandsLeft - 1,
                           IF o.op = "tick" THEN ticksLeft - 1 ELSE ticksLeft)

\* C22 as claimed: money is never clamped and can go negative: from the
\* default initial state some sequence of builds, demolitions, tax rate
\* changes and ticks reaches a state with money below 0.
C22_MoneyGoesNegative ==
    lastOp.op = "init" => CanGoNegative(State, MaxCommands, MaxTicks)

\* C22 as the code has it: no operation clamps money, every step leaves
\* exactly the arithmetic result (a successful build takes its cost, a tick
\* adds 10 - 10 r for every farm when that is positive and nothing otherwise,
\* every other step leaves money alone), and still money is never negative:
\* a build is refused when money is below its cost and farm income is never
\* negative.
C22_MoneyNeverNegative ==
    /\ gameState.money >= 0
    /\ [][/\ gameState'.money >= 0
          /\ (StepIs("build") /\ lastOp'.success) =>
                gameState'.money = gameState.money - CostTable(lastOp'.type).money
          /\ (StepIs("build") /\ ~lastOp'.success) =>
                gameState'.money = gameState.money
          /\ (StepIs("build") /\ gameState.money < CostTable(lastOp'.type).money) =>
                ~lastOp'.success /\ lastOp'.reason = Money
          /\ StepIs("tick") =>
                gameState'.money =
                   gameState.money
                     + (IF gameState.incomeTaxRate < 100
                        THEN (100 - gameState.incomeTaxRate)
                                * Cardinality(FarmsOf(structures, heap))
                        ELSE 0)
          /\ (StepIs("destroy") \/ StepIs("tax")) =>
                gameState'.money = gameState.money
       ]_vars

\* with money 90 a house, which costs 100, was refused; money is still 90
C22_Witness ==
    /\ lastOp.op = "build" /\ lastOp.type = "house"
    /\ ~lastOp.success /\ lastOp.reason = Money
    /\ gameState.money = Tenths(90)

\* the lumber structures with a living forest tile in their 17x17 square
Producing(map, h) ==
    {i \in 1..Len(map) :
        /\ h[map[i].ref].type = "lumber"
        /\ \E k \in Square(<<h[map[i].ref].x, h[map[i].ref].y>>, 8) :
              TileAt(k).isForest /\ TileAt(k).forestHealth > 0}

C24_BoundaryOuterBand ==
    \A c \in DOMAIN tiles :
        LET a == Abs(tiles[c].altitude)
            r == tiles[c].resources
        IN  /\ a = 5 => r.iron \in 5..30
            /\ a = 10 => r.iron = 0
            /\ a = 3 => r.uranium \in 0..5
            /\ a = 8 => r.uranium = 0

\* C24 as stated: a boundary altitude is assigned to the band with the
\* smaller altitude bound: |altitude| = 5 gets iron from [20,80],
\* |altitude| = 10 iron from [5,30], |altitude| = 3 uranium from [1,10],
\* |altitude| = 8 uranium from [0,5].
C24_BoundaryLowerBand ==
    \A c \in DOMAIN tiles :
        LET a == Abs(tiles[c].altitude)
            r == tiles[c].resources
        IN  /\ a = 5 => r.iron \in 20..80
            /\ a = 10 => r.iron \in 5..30
            /\ a = 3 => r.uranium \in 1..10
            /\ a = 8 => r.uranium \in 0..5

\* a world whose stored tiles include each of the four boundary altitudes,
\* with iron below 20 at |altitude| = 5
C24_Witness ==
    /\ lastOp.op = "getTiles"
    /\ \E c5, c10, c3, c8 \in DOMAIN tiles :
          /\ Abs(tiles[c5].altitude) = 5 /\ tiles[c5].resources.iron < 20
          /\ Abs(tiles[c10].altitude) = 10 /\ tiles[c10].resources.iron = 0
          /\ Abs(tiles[c3].altitude) = 3
          /\ Abs(tiles[c8].altitude) = 8 /\ tiles[c8].resources.uranium = 0

C26_PanelsDriveTheGame ==
    [][/\ (StepIs("build") /\ lastOp'.success) =>
             LET data == saveGame(seed', [tiles |-> tiles', structures |-> structures',
                                          heap |-> heap', gameState |-> gameState'])
             IN  /\ \E i \in 1..Len(structures') :
                       /\ structures'[i].key = lastOp'.at
                       /\ heap'[structures'[i].ref].type = lastOp'.type
                 /\ lastOp'.at \in DOMAIN tiles'
                 /\ tiles'[lastOp'.at].structure # Null
                 /\ \E i \in 1..Len(data.economy.structures) :
                       /\ data.economy.structures[i].x = lastOp'.at[1]
                       /\ data.economy.structures[i].y = lastOp'.at[2]
                       /\ data.economy.structures[i].type = lastOp'.type
       /\ StepIs("tax") =>
             /\ gameState'.incomeTaxRate = lastOp'.type
             /\ saveGame(seed', [tiles |-> tiles', structures |-> structures',
                                 heap |-> heap', gameState |-> gameState'])
                   .gameState.incomeTaxRate = lastOp'.type
      ]_vars

============================================================================
